---- MODULE Spec2Model ----
(***************************************************************************)
(* State-machine model of the story replication engine of sb-mig-gui:      *)
(* StoryblokService.copyStories and StoryblokService.buildTree             *)
(* (electron/services/database.service.ts).                                *)
(*                                                                         *)
(* JavaScript runs every promise continuation to completion, so each       *)
(* action below is one event-loop turn: the call itself, or the settling   *)
(* of one remote request together with every continuation it unblocks.     *)
(***************************************************************************)
EXTENDS Integers, Sequences, FiniteSets, TLC

\* ------------------------------------------------------------------ bounds
\* Number of stories that exist in the source space (ids 1..NumStories).
NumStories == 6
\* Longest storyIds list that repeats ids (in ascending order).
MaxIds == 4
\* Longest storyIds list in arbitrary order. Lists that name each story at
\* most once, in ascending order, are explored at every length.
MaxUnordered == 3
MaxConcurrentIds == 3
\* Most records in an argument of buildTree.
MaxRecords == 3
\* Most file paths in an invocation of loadAndSyncComponents.
MaxItems == 2
\* Most component files under the component directories, and most in the
\* root of the working directory; as many logical names.
MaxFiles == 2
\* Most full pages of stories the space holds.
MaxFullPages == 2
\* Most executeCommand calls.
MaxCommands == 3
\* Most sbmig:killProcess requests and replies in transit.
MaxInTransit == 2
\* Most components (directory or file names) of a path given to
\* loadComponentFiles.
MaxPathDepth == 2
\* Most file paths in an invocation of loadComponentFiles.
MaxPaths == 1
\* Most spaces added over the life of the application.
MaxSpaces == 3
\* Most db.setSetting calls in transit to the main process.
MaxWrites == 2
\* Most lines added to the output between two clear calls.
MaxAdded == 1003
\* Most lines in one addLines call.
MaxBatch == 3
\* Most stories selected for a copy from the modal.
MaxSelected == 2

\* ------------------------------------------------------- program constants
BATCH_SIZE == 5
SIBLING_BATCH_SIZE == 3

\* JavaScript null (parent_id: number | null).
Null == 0 - 1

\* -------------------------------------------------------------------- state
VARIABLES
    space,                \* the records of the source space, by id
    pc,                   \* "idle" | "fetching" | "creating" | "done"
    storyIds,             \* argument: the ids to copy
    destinationParentId,  \* argument: parent of the copied roots, or Null
    batchStart,           \* loop variable of the fetch phase
    fetches,              \* index into storyIds -> "inflight" | "fulfilled" | "rejected"
    storiesToCopy,        \* fetched records, by id
    errors,               \* the errors array
    copiedCount,
    tree,                 \* result of buildTree(storiesToCopy)
    idMap,                \* old id -> new id
    requests,             \* path -> createStoryWithChildren call and its createStory request
    frames,               \* path of the parent -> active createSiblingsInBatches call
    result,               \* value the returned promise resolved with, or Null
    events,               \* progress events passed to onProgress in the last turn
    lastCurrent,          \* `current` of the last event of the turns before, or Null
    calls,                \* concurrent copyStories calls: call -> its arguments and locals
    alone,                \* call -> the same call running alone on the same responses
    records,              \* buildTree: the argument, a list of records (by id)
    forest,               \* buildTree: whether it returned, and the value returned
    syncPc,               \* loadAndSyncComponents: "idle" | "loading" | "called" | "running" | "returned"
    localItems,           \* item (file path) -> how its load ends and what the space holds
    itemState,            \* component passed to syncComponents -> state of the item
    syncEvents,           \* the events sent on apiv2:syncProgress, in order
    syncResult,           \* the SyncOutcome syncComponents builds
    syncReturn,           \* the value the handler returns
    workingDir,           \* discoverComponents: the files readdir lists, in its order
    discovered,           \* discoverComponents: whether it returned, and the list returned
    fetchPc,              \* fetchStories: "idle" | "waiting" | "returned" | "threw"
    stored,               \* number of stories the space holds
    page,                 \* fetchStories: page
    fetched,              \* fetchStories: stories.length
    reportedTotal,        \* fetchStories: total of the last response
    pageRequests,         \* number of page requests issued
    currentProcess,       \* SbMigService.currentProcess: a process, or NoProcess
    processes,            \* executeCommand call -> its process and its promise
    webContents,          \* SbMigService.webContents is set
    outputInTransit,      \* sbmig:output events sent and not yet received, by type
    isRunning,            \* App: the isRunning state
    toMain,               \* sbmig:execute and sbmig:killProcess requests not yet handled
    killReplies,          \* replies to sbmig:killProcess not yet received
    loadArgs,             \* loadComponentFiles: its filePaths and workingDir
    loadedFiles,          \* loadComponentFiles: the files it compiled or required
    db,                   \* cached store: the database is open
    settings,             \* cached store: key -> value of its row in the settings table
    settingsCache,        \* cached store: key -> its entry in settingsCache
    plainDb,              \* uncached store: the database is open
    plainSettings,        \* uncached store: key -> value of its row in the settings table
    got,                  \* what the last call returned in each store, if it was getSetting
    settingHistory,       \* the calls made so far: initDatabase, closeDatabase, last write of a key
    spaces,               \* App: the spaces state, as the ids of the spaces
    activeSpaceId,        \* App: the activeSpaceId state
    savedSpaces,          \* the 'sbmig_spaces' setting, as the ids of the spaces
    savedActiveSpace,     \* the 'sbmig_active_space' setting
    uuids,                \* the ids crypto.randomUUID has returned so far
    settingWrites,        \* db.setSetting calls of the window not yet handled
    output,               \* useOutput: the output state
    lineId,               \* useOutput: lineIdRef.current
    linesAdded,           \* every line added since the last clear, in the order added
    storyCopy             \* App.executeStoryCopy: its step, the destination path, the slug lookup

\* The arguments and locals of one copyStories call.
copyVars == <<pc, storyIds, destinationParentId, batchStart, fetches, storiesToCopy,
              errors, copiedCount, tree, idMap, requests, frames, result,
              events, lastCurrent>>

concurrentVars == <<calls, alone>>

\* The state of everything but the one copyStories call.
treeVars == <<records, forest>>

syncVars == <<syncPc, localItems, itemState, syncEvents, syncResult, syncReturn>>

discoverVars == <<workingDir, discovered>>

fetchVars == <<fetchPc, stored, page, fetched, reportedTotal, pageRequests>>

processVars == <<currentProcess, processes, webContents, outputInTransit>>

rendererVars == <<isRunning, toMain, killReplies>>

\* The state of the application outside StoryblokService and the handlers
\* above.
loadVars == <<loadArgs, loadedFiles>>

settingsVars ==
    <<db, settings, settingsCache, plainDb, plainSettings, got, settingHistory>>

spacesVars ==
    <<spaces, activeSpaceId, savedSpaces, savedActiveSpace, uuids,
      settingWrites>>

outputVars == <<output, lineId, linesAdded>>

appVars ==
    <<processVars, rendererVars, loadVars, settingsVars, spacesVars,
      outputVars, storyCopy>>

otherVars == <<concurrentVars, treeVars, syncVars, discoverVars, fetchVars,
               appVars>>

vars == <<space, copyVars, otherVars>>

\* No concurrent calls are being made.
ConcurrentIdle == calls = <<>> /\ alone = <<>>

\* buildTree is not called on its own.
NotReturned == [returned |-> FALSE, roots |-> <<>>, children |-> <<>>]

TreeIdle == records = <<>> /\ forest = NotReturned

EmptyOutcome ==
    [created |-> <<>>, updated |-> <<>>, skipped |-> <<>>, errors |-> <<>>]

\* loadAndSyncComponents is not invoked.
SyncIdle ==
    /\ syncPc = "idle"
    /\ localItems = <<>>
    /\ itemState = <<>>
    /\ syncEvents = <<>>
    /\ syncResult = EmptyOutcome
    /\ syncReturn = EmptyOutcome

\* discoverComponents is not called.
DiscoverIdle ==
    /\ workingDir = [scanned |-> <<>>, root |-> <<>>]
    /\ discovered = [returned |-> FALSE, components |-> <<>>]

\* fetchStories is not called.
FetchIdle ==
    /\ fetchPc = "idle"
    /\ stored = 0
    /\ page = 1
    /\ fetched = 0
    /\ reportedTotal = 0
    /\ pageRequests = 0

\* null, as the value of currentProcess.
NoProcess == 0

\* No command was executed.
ProcessIdle ==
    /\ currentProcess = NoProcess
    /\ processes = <<>>
    /\ webContents = FALSE
    /\ outputInTransit = <<>>

\* The window has sent no command.
RendererIdle == isRunning = FALSE /\ toMain = <<>> /\ killReplies = 0

\* loadComponentFiles is not called.
LoadIdle ==
    /\ loadArgs = [called |-> FALSE, filePaths |-> <<>>, workingDir |-> <<>>]
    /\ loadedFiles = {}

\* The keys and the values of the settings, and the marks of no row (the
\* null getSetting returns) and of no entry in settingsCache.
Keys == {"k1", "k2"}

Values == {"v1", "v2"}

NullValue == "null"

Absent == "absent"

NoCall == [called |-> FALSE, key |-> "k1", value |-> NullValue, plainValue |-> NullValue]

\* The module is loaded, no function of it called; the table is empty.
SettingsIdle ==
    /\ db = FALSE
    /\ settings = [k \in Keys |-> NullValue]
    /\ settingsCache = [k \in Keys |-> Absent]
    /\ plainDb = FALSE
    /\ plainSettings = [k \in Keys |-> NullValue]
    /\ got = NoCall
    /\ settingHistory = [inited |-> FALSE, closed |-> FALSE,
                         last |-> [k \in Keys |-> "none"]]

\* activeSpaceId null, and no 'sbmig_active_space' row.
NoSpace == 0

\* First start of the application: no space configured, nothing saved.
SpacesIdle ==
    /\ spaces = <<>>
    /\ activeSpaceId = NoSpace
    /\ savedSpaces = <<>>
    /\ savedActiveSpace = NoSpace
    /\ uuids = 0
    /\ settingWrites = <<>>

\* useOutput on mount.
OutputIdle == output = <<>> /\ lineId = 0 /\ linesAdded = <<>>

\* The story copy modal is not confirmed.
StoryCopyIdle ==
    storyCopy = [step |-> "idle", destinationPath |-> "", lookup |-> "none"]

AppIdle ==
    /\ ProcessIdle
    /\ RendererIdle
    /\ LoadIdle
    /\ SettingsIdle
    /\ SpacesIdle
    /\ OutputIdle
    /\ StoryCopyIdle

OthersIdle ==
    ConcurrentIdle /\ TreeIdle /\ SyncIdle /\ DiscoverIdle /\ FetchIdle
        /\ AppIdle

\* ------------------------------------------------------------ source space
\* The records fetchStory returns when stories are copied: a fixed content
\* tree of the source space.
\*   1 (folder, root) -- 2 (folder) -- 5
\*                    |- 3         \- 7, 8, ...
\*                    \- 4
\*   6 (root, parent_id 0)
StoryIdsOfSpace == 1..NumStories

SourceSpace ==
    [id \in StoryIdsOfSpace |->
        [parent_id |-> CASE id = 1 -> Null
                         [] id \in {2, 3, 4} -> 1
                         [] id = 5 -> 2
                         [] id = 6 -> 0
                         [] OTHER -> 2,
         is_folder |-> id \in {1, 2},
         position |-> CASE id \in {1, 2, 5, 6} -> 0
                        [] OTHER -> 1]]

StoryParentId(id) == space[id].parent_id

StoryIsFolder(id) == space[id].is_folder

StoryPosition(id) == space[id].position

\* Collation rank of the story's name (what localeCompare orders by).
StoryName(id) == id

\* ---------------------------------------------------------------- buildTree
Min(a, b) == IF a < b THEN a ELSE b

Front(s) == SubSeq(s, 1, Len(s) - 1)

Last(s) == s[Len(s)]

\* Mutant: the comparator looks at the position before the folder flag.
CompareNodes_PositionFirst(a, b) ==
    IF StoryPosition(a) # StoryPosition(b)
    THEN StoryPosition(a) - StoryPosition(b)
    ELSE IF StoryIsFolder(a) /\ ~StoryIsFolder(b) THEN 0 - 1
    ELSE IF ~StoryIsFolder(a) /\ StoryIsFolder(b) THEN 1
    ELSE StoryName(a) - StoryName(b)

\* The comparator of sortNodes: negative when a sorts before b.
CompareNodes(a, b) ==
    IF StoryIsFolder(a) /\ ~StoryIsFolder(b) THEN 0 - 1
    ELSE IF ~StoryIsFolder(a) /\ StoryIsFolder(b) THEN 1
    ELSE IF StoryPosition(a) # StoryPosition(b)
         THEN StoryPosition(a) - StoryPosition(b)
    ELSE StoryName(a) - StoryName(b)

\* Array.prototype.sort is stable: x goes after every element not greater.
RECURSIVE InsertNode(_, _)
InsertNode(x, sorted) ==
    IF sorted = <<>> THEN <<x>>
    ELSE IF CompareNodes(Last(sorted), x) <= 0 THEN Append(sorted, x)
    ELSE Append(InsertNode(x, Front(sorted)), Last(sorted))

RECURSIVE SortList(_)
SortList(nodes) ==
    IF nodes = <<>> THEN <<>>
    ELSE InsertNode(Last(nodes), SortList(Front(nodes)))

\* Mutant: a record whose parent is not among the records is left out.
RECURSIVE LinkNodes_DropOrphans(_, _, _)
LinkNodes_DropOrphans(stories, k, t) ==
    IF k > Len(stories) THEN t
    ELSE LET id == stories[k]
             p == StoryParentId(id)
             keys == {stories[j] : j \in 1..Len(stories)}
         IN IF p = Null \/ p = 0
            THEN LinkNodes_DropOrphans(stories, k + 1,
                           [t EXCEPT !.roots = Append(@, id)])
            ELSE IF p \in keys
            THEN LinkNodes_DropOrphans(stories, k + 1,
                           [t EXCEPT !.children[p] = Append(@, id)])
            ELSE LinkNodes_DropOrphans(stories, k + 1, t)

\* Second pass of buildTree over stories[k..]: each record's node (the one
\* storyMap holds for its id) is pushed to its parent's children or to the
\* root list.
RECURSIVE LinkNodes(_, _, _)
LinkNodes(stories, k, t) ==
    IF k > Len(stories) THEN t
    ELSE LET id == stories[k]
             p == StoryParentId(id)
             keys == {stories[j] : j \in 1..Len(stories)}
         IN IF p = Null \/ p = 0 \/ p \notin keys
            THEN LinkNodes(stories, k + 1,
                           [t EXCEPT !.roots = Append(@, id)])
            ELSE LinkNodes(stories, k + 1,
                           [t EXCEPT !.children[p] = Append(@, id)])

\* sortNodes: sorts the list in place, then the children of each of its nodes.
RECURSIVE SortNodes(_, _)
RECURSIVE SortEach(_, _, _)
SortEach(nodes, k, children) ==
    IF k > Len(nodes) THEN children
    ELSE LET n == nodes[k]
         IN IF Len(children[n]) > 0
            THEN SortEach(nodes, k + 1,
                          [SortNodes(children[n], children)
                               EXCEPT ![n] = SortList(children[n])])
            ELSE SortEach(nodes, k + 1, children)

SortNodes(nodes, children) == SortEach(SortList(nodes), 1, children)

\* buildTree: the forest as the sorted root list and, per node id, the sorted
\* children list.
BuildTree(stories) ==
    LET keys == {stories[j] : j \in 1..Len(stories)}
        linked == LinkNodes(stories, 1,
                            [roots |-> <<>>, children |-> [n \in keys |-> <<>>]])
    IN [roots |-> SortList(linked.roots),
        children |-> SortNodes(linked.roots, linked.children)]

\* The local state of one copyStories call as one value, so that a chain of
\* continuations is a composition of functions.
Cur ==
    [pc |-> pc, storyIds |-> storyIds, destinationParentId |-> destinationParentId,
     batchStart |-> batchStart, fetches |-> fetches, storiesToCopy |-> storiesToCopy,
     errors |-> errors, copiedCount |-> copiedCount, tree |-> tree, idMap |-> idMap,
     requests |-> requests, frames |-> frames, result |-> result,
     events |-> events, lastCurrent |-> lastCurrent]

Becomes(s) ==
    /\ pc' = s.pc
    /\ storyIds' = s.storyIds
    /\ destinationParentId' = s.destinationParentId
    /\ batchStart' = s.batchStart
    /\ fetches' = s.fetches
    /\ storiesToCopy' = s.storiesToCopy
    /\ errors' = s.errors
    /\ copiedCount' = s.copiedCount
    /\ tree' = s.tree
    /\ idMap' = s.idMap
    /\ requests' = s.requests
    /\ frames' = s.frames
    /\ result' = s.result
    /\ events' = s.events
    /\ lastCurrent' = s.lastCurrent
    /\ UNCHANGED <<space, otherVars>>

\* The storyIds lists a call is given. Lists of at most n ids in any order,
\* repeats allowed:
RECURSIVE IdLists(_)
IdLists(n) ==
    IF n = 0 THEN {<<>>}
    ELSE LET shorter == IdLists(n - 1)
         IN shorter \cup
            {Append(l, id) : l \in {x \in shorter : Len(x) = n - 1},
                             id \in StoryIdsOfSpace}

\* and lists of at most n ids in ascending order, each id at least `step`
\* above the one before it (step 0 allows repeats, step 1 does not).
RECURSIVE AscendingIdLists(_, _)
AscendingIdLists(n, step) ==
    IF n = 0 THEN {<<>>}
    ELSE LET shorter == AscendingIdLists(n - 1, step)
         IN shorter \cup
            UNION {{Append(l, id) :
                       id \in {i \in StoryIdsOfSpace :
                                  Len(l) = 0 \/ i >= Last(l) + step}} :
                   l \in {x \in shorter : Len(x) = n - 1}}

StoryIdLists ==
    IdLists(MaxUnordered)
        \cup AscendingIdLists(MaxIds, 0)
        \cup AscendingIdLists(NumStories, 1)

\* An id of the target space that is no id of the source space.
DestinationIds == {Null, 500}

\* The arguments and locals of a call that has not started.
NewCall(ids, dest) ==
    [pc |-> "idle", storyIds |-> ids, destinationParentId |-> dest,
     batchStart |-> 0, fetches |-> <<>>, storiesToCopy |-> <<>>,
     errors |-> <<>>, copiedCount |-> 0,
     tree |-> [roots |-> <<>>, children |-> <<>>], idMap |-> <<>>,
     requests |-> <<>>, frames |-> <<>>, result |-> Null,
     events |-> <<>>, lastCurrent |-> Null]

\* The locals of a call that has not started.
LocalsInitial ==
    /\ pc = "idle"
    /\ batchStart = 0
    /\ fetches = <<>>
    /\ storiesToCopy = <<>>
    /\ errors = <<>>
    /\ copiedCount = 0
    /\ tree = [roots |-> <<>>, children |-> <<>>]
    /\ idMap = <<>>
    /\ requests = <<>>
    /\ frames = <<>>
    /\ result = Null
    /\ events = <<>>
    /\ lastCurrent = Null

\* The state before the call, for a call with one of the given lists.
InitWith(lists) ==
    /\ space = SourceSpace
    /\ OthersIdle
    /\ storyIds \in lists
    /\ destinationParentId \in DestinationIds
    /\ LocalsInitial

\* The single call is not made.
CopyIdle ==
    /\ storyIds = <<>>
    /\ destinationParentId = Null
    /\ LocalsInitial

Init == InitWith(StoryIdLists)

\* The calls the user interface makes: it passes Array.from of a Set of ids,
\* so every id once.
InitDistinct == InitWith(AscendingIdLists(NumStories, 1))

\* ---------------------------------------------------------- progress events
\* onProgress?.(progress): the event joins those of this turn.
OnProgress(s, progress) == [s EXCEPT !.events = Append(@, progress)]

\* The state a turn of the event loop starts from: the events of the turn
\* before have been delivered.
Turn(s) ==
    [s EXCEPT !.events = <<>>,
              !.lastCurrent = IF Len(s.events) > 0
                              THEN Last(s.events).current ELSE @]

\* ------------------------------------------------------------- fetch phase
\* Mutant: the slice ends one index late.
FetchBatch_OneMore(start, n) == (start + 1)..Min(start + BATCH_SIZE + 1, n)

\* batchIds = storyIds.slice(batchStart, batchStart + BATCH_SIZE), as indices.
FetchBatch(start, n) == (start + 1)..Min(start + BATCH_SIZE, n)

\* One iteration of the fetch loop up to its await: every fetchStory of the
\* batch is called, which issues its request.
StartFetchBatch(s) ==
    LET s1 == OnProgress(s,
                  [current |-> s.batchStart + 1,
                   total |-> Len(s.storyIds),
                   currentStory |->
                       [kind |-> "Fetching stories",
                        from |-> s.batchStart + 1,
                        to |-> Min(s.batchStart + BATCH_SIZE, Len(s.storyIds))],
                   status |-> "copying"])
    IN [s1 EXCEPT !.pc = "fetching",
                  !.fetches = [k \in FetchBatch(s.batchStart, Len(s.storyIds))
                                  |-> "inflight"] @@ @]

\* batchResults.forEach over the indices from k on.
RECURSIVE ProcessResults(_, _, _)
ProcessResults(s, k, last) ==
    IF k > last THEN s
    ELSE IF s.fetches[k] = "fulfilled"
         THEN ProcessResults(
                  [s EXCEPT !.storiesToCopy = Append(@, s.storyIds[k])],
                  k + 1, last)
         ELSE ProcessResults(
                  [s EXCEPT !.errors =
                       Append(@, [kind |-> "fetch", id |-> s.storyIds[k]])],
                  k + 1, last)

\* ------------------------------------------------------------ create phase
\* The id the target space gives the story created by the request at `path`:
\* fresh for every request (paths are coded in base 10).
RECURSIVE PathCode(_)
PathCode(path) ==
    IF path = <<>> THEN 0 ELSE PathCode(Front(path)) * 10 + Last(path)

NewStoryId(path) == 1000 + PathCode(path)

\* Mutant: the slice ends one index late.
SiblingBatch_OneMore(i, n) == (i + 1)..Min(i + SIBLING_BATCH_SIZE + 1, n)

\* batch = nodes.slice(i, i + SIBLING_BATCH_SIZE), as indices.
SiblingBatch(i, n) == (i + 1)..Min(i + SIBLING_BATCH_SIZE, n)

\* createStoryWithChildren up to its await, for every node of the batch of
\* the createSiblingsInBatches call at `fp`: createStory issues the request.
SubmitBatch(s, fp) ==
    LET f == s.frames[fp]
        batch == SiblingBatch(f.i, Len(f.nodes))
    IN [s EXCEPT !.events =
            @ \o [j \in 1..Cardinality(batch) |->
                     [current |-> s.copiedCount + 1,
                      total |-> Len(s.storiesToCopy),
                      currentStory |-> [kind |-> "name",
                                        name |-> StoryName(f.nodes[f.i + j])],
                      status |-> "copying"]],
                 !.requests =
            [p \in {Append(fp, k) : k \in batch} |->
                [node |-> f.nodes[Last(p)], parent_id |-> f.newParentId,
                 status |-> "inflight", newId |-> Null, done |-> FALSE]] @@ @]

\* Mutant: the final event counts the requested ids, not the fetched records.
FinalEvent_TotalRequested(s) ==
    [current |-> s.copiedCount,
     total |-> Len(s.storyIds),
     currentStory |-> [kind |-> "Complete"],
     status |-> IF Len(s.errors) > 0 THEN "error" ELSE "done"]

\* The final progress event.
FinalEvent(s) ==
    [current |-> s.copiedCount,
     total |-> Len(s.storiesToCopy),
     currentStory |-> [kind |-> "Complete"],
     status |-> IF Len(s.errors) > 0 THEN "error" ELSE "done"]

\* Mutant: success tells whether every fetched story was copied.
Finish_CopiedAll(s) ==
    [s EXCEPT !.pc = "done",
              !.events = Append(@, FinalEvent(s)),
              !.result = [success |-> s.copiedCount = Len(s.storiesToCopy),
                          copiedCount |-> s.copiedCount,
                          errors |-> s.errors]]

\* The end of copyStories: the value its promise resolves with.
Finish(s) ==
    [s EXCEPT !.pc = "done",
              !.events = Append(@, FinalEvent(s)),
              !.result = [success |-> Len(s.errors) = 0,
                          copiedCount |-> s.copiedCount,
                          errors |-> s.errors]]

RECURSIVE TaskDone(_, _)
RECURSIVE FrameReturned(_, _)

\* The createSiblingsInBatches call at `fp` returns: its caller continues.
FrameReturned(s, fp) ==
    LET s1 == [s EXCEPT !.frames =
                   [q \in (DOMAIN s.frames) \ {fp} |-> s.frames[q]]]
    IN IF fp = <<>> THEN Finish(s1) ELSE TaskDone(s1, fp)

\* The promise of the createStoryWithChildren call at `path` resolves. When it
\* is the last of its batch, Promise.all resolves and the loop of the
\* enclosing createSiblingsInBatches goes on.
TaskDone(s, path) ==
    LET fp == Front(path)
        s1 == [s EXCEPT !.requests[path].done = TRUE]
        f == s1.frames[fp]
    IN IF \A k \in SiblingBatch(f.i, Len(f.nodes)) : s1.requests[Append(fp, k)].done
       THEN IF f.i + SIBLING_BATCH_SIZE < Len(f.nodes)
            THEN SubmitBatch(
                     [s1 EXCEPT !.frames[fp].i = @ + SIBLING_BATCH_SIZE], fp)
            ELSE FrameReturned(s1, fp)
       ELSE s1

\* A call createSiblingsInBatches(nodes, newParentId) made by the call at `fp`.
CreateSiblingsInBatches(s, fp, nodes, newParentId) ==
    IF Len(nodes) = 0 THEN FrameReturned(s, fp)
    ELSE SubmitBatch(
             [s EXCEPT !.frames =
                  (fp :> [nodes |-> nodes, newParentId |-> newParentId, i |-> 0])
                      @@ @],
             fp)

\* Mutant: the children are parented under the id the node has in the source.
ChildrenParentId_SourceId(node, newStoryId) == node

\* What createStoryWithChildren hands its children as their parent.
ChildrenParentId(node, newStoryId) == newStoryId

\* createStory returned newStory: the try block after the await.
CreateFulfilled(s, path) ==
    LET node == s.requests[path].node
        id == NewStoryId(path)
        s1 == [s EXCEPT !.requests[path].status = "created",
                        !.requests[path].newId = id,
                        !.idMap = (node :> id) @@ @,
                        !.copiedCount = @ + 1]
    IN IF Len(s.tree.children[node]) > 0
       THEN CreateSiblingsInBatches(s1, path, s.tree.children[node],
                                    ChildrenParentId(node, id))
       ELSE TaskDone(s1, path)

\* Mutant: no try/catch around createStory: the rejection leaves through
\* Promise.all and copyStories rejects.
CreateRejected_Uncaught(s, path) ==
    [s EXCEPT !.requests[path].status = "failed",
              !.pc = "rejected"]

\* Mutant: the failure of one creation ends the enclosing
\* createSiblingsInBatches call (a Promise.all rejection that nobody catches
\* per item), so the batches after it are given up.
CreateRejected_EndsSiblings(s, path) ==
    LET node == s.requests[path].node
        s1 == [s EXCEPT !.requests[path].status = "failed",
                        !.requests[path].done = TRUE,
                        !.errors = Append(@, [kind |-> "create", id |-> node])]
    IN FrameReturned(s1, Front(path))

\* createStory threw: the catch block.
CreateRejected(s, path) ==
    LET node == s.requests[path].node
        s1 == [s EXCEPT !.requests[path].status = "failed",
                        !.errors = Append(@, [kind |-> "create", id |-> node])]
    IN TaskDone(s1, path)

\* After the fetch loop: buildTree and the root createSiblingsInBatches call.
StartCreate(s) ==
    LET t == BuildTree(s.storiesToCopy)
    IN CreateSiblingsInBatches([s EXCEPT !.pc = "creating", !.tree = t],
                               <<>>, t.roots, s.destinationParentId)

\* The head of the fetch loop.
FetchLoop(s) ==
    IF s.batchStart < Len(s.storyIds) THEN StartFetchBatch(s) ELSE StartCreate(s)

\* Promise.allSettled resolved: collect the results, then the next iteration.
AfterFetchBatch(s) ==
    LET batch == FetchBatch(s.batchStart, Len(s.storyIds))
        s1 == ProcessResults(s, s.batchStart + 1,
                             Min(s.batchStart + BATCH_SIZE, Len(s.storyIds)))
    IN FetchLoop([s1 EXCEPT !.batchStart = @ + BATCH_SIZE])

\* One fetchStory promise settles.
FetchSettled(s, k, outcome) ==
    LET s1 == [s EXCEPT !.fetches[k] = outcome]
    IN IF \A j \in FetchBatch(s.batchStart, Len(s.storyIds)) :
              s1.fetches[j] # "inflight"
       THEN AfterFetchBatch(s1)
       ELSE s1

\* ------------------------------------------------------------------ actions
\* copyStories is called.
CopyStories ==
    /\ pc = "idle"
    /\ Becomes(FetchLoop(Turn(Cur)))

\* The source space answers a fetchStory request with the story.
FetchStoryFulfilled ==
    /\ pc = "fetching"
    /\ \E k \in DOMAIN fetches :
          /\ fetches[k] = "inflight"
          /\ Becomes(FetchSettled(Turn(Cur), k, "fulfilled"))

\* A fetchStory request fails (non-2xx answer or network error).
FetchStoryRejected ==
    /\ pc = "fetching"
    /\ \E k \in DOMAIN fetches :
          /\ fetches[k] = "inflight"
          /\ Becomes(FetchSettled(Turn(Cur), k, "rejected"))

\* The target space answers a createStory request with the new story.
CreateStoryFulfilled ==
    /\ pc = "creating"
    /\ \E path \in DOMAIN requests :
          /\ requests[path].status = "inflight"
          /\ Becomes(CreateFulfilled(Turn(Cur), path))

\* A createStory request fails.
CreateStoryRejected ==
    /\ pc = "creating"
    /\ \E path \in DOMAIN requests :
          /\ requests[path].status = "inflight"
          /\ Becomes(CreateRejected(Turn(Cur), path))

Next ==
    \/ CopyStories
    \/ FetchStoryFulfilled
    \/ FetchStoryRejected
    \/ CreateStoryFulfilled
    \/ CreateStoryRejected

Spec == Init /\ [][Next]_vars

\* ------------------------------------------------------- buildTree, called
\* buildTree on any list of up to MaxRecords records with the ids 1..n, each
\* once. A parent id is null, 0, the id of a record of the list (its own
\* included) or an id of no record of the list.
AbsentId(n) == n + 1

RecordSpaces(n) ==
    [1..n -> [parent_id : {Null, 0, AbsentId(n)} \cup (1..n),
              is_folder : BOOLEAN,
              position : {0, 1}]]

\* The list in the order of descending ids, which is descending names.
Descending(n) == [j \in 1..n |-> n + 1 - j]

TreeInit ==
    /\ CopyIdle
    /\ AppIdle
    /\ ConcurrentIdle
    /\ SyncIdle
    /\ DiscoverIdle
    /\ FetchIdle
    /\ \E n \in 1..MaxRecords :
          /\ space \in RecordSpaces(n)
          /\ records = Descending(n)
    /\ forest = NotReturned

BuildTreeCall ==
    /\ ~forest.returned
    /\ forest' = [returned |-> TRUE] @@ BuildTree(records)
    /\ UNCHANGED <<space, appVars, copyVars, concurrentVars, syncVars, discoverVars, fetchVars,
                   records>>

TreeNext == BuildTreeCall

TreeSpec == TreeInit /\ [][TreeNext]_vars

\* ---------------------------------------------------- loadAndSyncComponents
\* The handler of "apiv2:loadAndSyncComponents". A local item is a file path;
\* its name is its index. loadComponentFiles drops it ("invalid": no such
\* file, or outside the working directory), fails to load it ("error") or
\* loads it ("loaded"); the space holds no component of its name ("absent"),
\* one that differs ("differs") or an equal one ("same").
ItemInputs ==
    [load : {"invalid", "error", "loaded"},
     remote : {"absent", "differs", "same"}]

SyncInit ==
    /\ space = SourceSpace
    /\ CopyIdle
    /\ AppIdle
    /\ ConcurrentIdle
    /\ TreeIdle
    /\ DiscoverIdle
    /\ FetchIdle
    /\ syncPc = "idle"
    /\ \E n \in 0..MaxItems : localItems \in [1..n -> ItemInputs]
    /\ itemState = <<>>
    /\ syncEvents = <<>>
    /\ syncResult = EmptyOutcome
    /\ syncReturn = EmptyOutcome

\* The elements of a set of numbers in ascending order.
Ascending(S) ==
    [j \in 1..Cardinality(S) |->
        CHOOSE x \in S : Cardinality({y \in S : y < x}) = j - 1]

SyncEvent(type, total, name, action) ==
    [type |-> type, total |-> total, name |-> name, action |-> action]

\* The name field of an event that has none, and of the error of a sync call
\* that threw (name: "sync").
NoName == 0

ItemsWith(loads) == {i \in DOMAIN localItems : localItems[i].load \in loads}

\* successfulLoads, as the names of the components.
SuccessfulLoads == ItemsWith({"loaded"})

\* loadErrors.
LoadErrors ==
    [j \in 1..Cardinality(ItemsWith({"error"})) |->
        [name |-> Ascending(ItemsWith({"error"}))[j], message |-> "load"]]

\* The handler is invoked: it sends the start event and calls
\* loadComponentFiles.
LoadAndSyncComponents ==
    /\ syncPc = "idle"
    /\ syncPc' = "loading"
    /\ syncEvents' = <<SyncEvent("start", Len(localItems), NoName, "none")>>
    /\ UNCHANGED <<localItems, itemState, syncResult, syncReturn>>
    /\ UNCHANGED <<space, appVars, copyVars, concurrentVars, treeVars, discoverVars, fetchVars>>

\* Mutant: the handler returns without a complete event when nothing loaded.
LoadingFailed_NoComplete(evts, total) == evts

\* No file loaded: the complete event of the handler.
LoadingFailed(evts, total) ==
    Append(evts, SyncEvent("complete", total, NoName, "none"))

\* Mutant: the handler returns the load errors in place of all errors.
CombineResults_LoadErrorsOnly(engineResult, loadErrors) ==
    [engineResult EXCEPT !.errors = loadErrors]

\* {...syncResult, errors: [...syncResult.errors, ...loadErrors]}
CombineResults(engineResult, loadErrors) ==
    [engineResult EXCEPT !.errors = @ \o loadErrors]

\* loadComponentFiles returns: a progress event per file it worked on, an
\* error event per file that did not load; then the handler returns if
\* nothing loaded and calls syncComponents otherwise.
LoadComponentFilesReturns ==
    /\ syncPc = "loading"
    /\ LET worked == Ascending(ItemsWith({"error", "loaded"}))
           total == Len(localItems)
           evts == syncEvents
                     \o [j \in 1..Len(worked) |->
                            SyncEvent("progress", total, worked[j], "creating")]
                     \o [j \in 1..Len(LoadErrors) |->
                            SyncEvent("progress", total, LoadErrors[j].name, "error")]
       IN IF SuccessfulLoads = {}
          THEN /\ syncEvents' = LoadingFailed(evts, total)
               /\ syncReturn' = [EmptyOutcome EXCEPT !.errors = LoadErrors]
               /\ syncPc' = "returned"
               /\ UNCHANGED itemState
          ELSE /\ syncEvents' = evts
               /\ itemState' = [i \in SuccessfulLoads |-> "Discovered"]
               /\ syncPc' = "called"
               /\ UNCHANGED syncReturn
    /\ UNCHANGED <<localItems, syncResult>>
    /\ UNCHANGED <<space, appVars, copyVars, concurrentVars, treeVars, discoverVars, fetchVars>>

\* syncComponents rejects before it works on any item (a ConfigurationError);
\* the handler catches it, sends a complete event and returns the load errors
\* and an error named "sync".
SyncComponentsRejects ==
    /\ \/ syncPc = "called"
       \/ /\ syncPc = "running"
          /\ \A i \in DOMAIN itemState : itemState[i] = "Discovered"
    /\ syncEvents' = Append(syncEvents,
           SyncEvent("complete", Cardinality(SuccessfulLoads), NoName, "none"))
    /\ syncReturn' = [EmptyOutcome EXCEPT !.errors =
           LoadErrors \o <<[name |-> NoName, message |-> "sync"]>>]
    /\ syncPc' = "returned"
    /\ UNCHANGED <<localItems, itemState, syncResult>>
    /\ UNCHANGED <<space, appVars, copyVars, concurrentVars, treeVars, discoverVars, fetchVars>>

\* syncComponents starts: the start event, total = the components passed.
SyncComponentsStarts ==
    /\ syncPc = "called"
    /\ syncPc' = "running"
    /\ syncEvents' = Append(syncEvents,
           SyncEvent("start", Cardinality(DOMAIN itemState), NoName, "none"))
    /\ UNCHANGED <<localItems, itemState, syncResult, syncReturn>>
    /\ UNCHANGED <<space, appVars, copyVars, concurrentVars, treeVars, discoverVars, fetchVars>>

\* What syncComponents does with an item after looking it up in the space.
ActionFor(remote) ==
    CASE remote = "absent" -> "Creating"
      [] remote = "differs" -> "Updating"
      [] OTHER -> "Skipped"

Lowercase(state) ==
    CASE state = "Creating" -> "creating"
      [] state = "Updating" -> "updating"
      [] state = "Created" -> "created"
      [] state = "Updated" -> "updated"
      [] state = "Skipped" -> "skipped"
      [] OTHER -> "error"

\* The outcome with item i added to the list its terminal state names.
Recorded(o, i, state) ==
    CASE state = "Created" -> [o EXCEPT !.created = Append(@, i)]
      [] state = "Updated" -> [o EXCEPT !.updated = Append(@, i)]
      [] state = "Skipped" -> [o EXCEPT !.skipped = Append(@, i)]
      [] state = "Error" ->
            [o EXCEPT !.errors = Append(@, [name |-> i, message |-> "remote"])]
      [] OTHER -> o

\* The item moves to `state`: a progress event with its name and action, and
\* its entry in the outcome.
ItemBecomes(i, state) ==
    /\ itemState' = [itemState EXCEPT ![i] = state]
    /\ syncEvents' = Append(syncEvents,
           SyncEvent("progress", Cardinality(DOMAIN itemState), i, Lowercase(state)))
    /\ syncResult' = Recorded(syncResult, i, state)
    /\ UNCHANGED <<syncPc, localItems, syncReturn>>
    /\ UNCHANGED <<space, appVars, copyVars, concurrentVars, treeVars, discoverVars, fetchVars>>

\* syncComponents has looked the item up: it creates, updates or skips it.
ItemLookedUp ==
    /\ syncPc = "running"
    /\ \E i \in DOMAIN itemState :
          /\ itemState[i] = "Discovered"
          /\ ItemBecomes(i, ActionFor(localItems[i].remote))

\* The create or update call of an item succeeds.
ItemCallSucceeds ==
    /\ syncPc = "running"
    /\ \E i \in DOMAIN itemState :
          /\ itemState[i] \in {"Creating", "Updating"}
          /\ ItemBecomes(i, IF itemState[i] = "Creating"
                            THEN "Created" ELSE "Updated")

\* The create or update call of an item fails.
ItemCallFails ==
    /\ syncPc = "running"
    /\ \E i \in DOMAIN itemState :
          /\ itemState[i] \in {"Creating", "Updating"}
          /\ ItemBecomes(i, "Error")

TerminalStates == {"Created", "Updated", "Skipped", "Error"}

\* syncComponents has processed every item: the complete event; it returns
\* its outcome and the handler returns it with the load errors added.
SyncComponentsReturns ==
    /\ syncPc = "running"
    /\ \A i \in DOMAIN itemState : itemState[i] \in TerminalStates
    /\ syncEvents' = Append(syncEvents,
           SyncEvent("complete", Cardinality(DOMAIN itemState), NoName, "none"))
    /\ syncReturn' = CombineResults(syncResult, LoadErrors)
    /\ syncPc' = "returned"
    /\ UNCHANGED <<localItems, itemState, syncResult>>
    /\ UNCHANGED <<space, appVars, copyVars, concurrentVars, treeVars, discoverVars, fetchVars>>

SyncNext ==
    \/ LoadAndSyncComponents
    \/ LoadComponentFilesReturns
    \/ SyncComponentsRejects
    \/ SyncComponentsStarts
    \/ ItemLookedUp
    \/ ItemCallSucceeds
    \/ ItemCallFails
    \/ SyncComponentsReturns

SyncSpec == SyncInit /\ [][SyncNext]_vars

\* ------------------------------------------------------- discoverComponents
\* SbMigService.discoverComponents. The working directory is given by what
\* the scans find: `scanned`, the component files under the component
\* directories in the order scanDir meets them, each with its logical name
\* (file name without the extension) and whether it lies under node_modules;
\* `root`, the logical names of the component files in the directory itself.
ComponentNames == 1..MaxFiles

RECURSIVE ListsOver(_, _)
ListsOver(S, n) ==
    IF n = 0 THEN {<<>>}
    ELSE LET shorter == ListsOver(S, n - 1)
         IN shorter \cup {Append(l, x) : l \in shorter, x \in S}

DiscoverInit ==
    /\ space = SourceSpace
    /\ CopyIdle
    /\ AppIdle
    /\ ConcurrentIdle
    /\ TreeIdle
    /\ SyncIdle
    /\ FetchIdle
    /\ \E scanned \in ListsOver([name : ComponentNames,
                                 type : {"local", "external"}], MaxFiles),
          root \in ListsOver(ComponentNames, MaxFiles) :
          workingDir = [scanned |-> scanned, root |-> root]
    /\ discovered = [returned |-> FALSE, components |-> <<>>]

\* The component scanDir pushes for the k-th file it meets.
ScannedComponent(scanned, k) ==
    [name |-> scanned[k].name, filePath |-> k, type |-> scanned[k].type]

\* scanDir over the component directories: every file found is pushed.
ScanDirs(scanned) == [k \in 1..Len(scanned) |-> ScannedComponent(scanned, k)]

\* The scan of the root: a file is pushed unless a component of its name is
\* in the list already.
RECURSIVE ScanRoot(_, _, _, _)
ScanRoot(components, root, k, firstPath) ==
    IF k > Len(root) THEN components
    ELSE IF \E j \in 1..Len(components) : components[j].name = root[k]
         THEN ScanRoot(components, root, k + 1, firstPath)
         ELSE ScanRoot(Append(components,
                              [name |-> root[k], filePath |-> firstPath + k,
                               type |-> "local"]),
                       root, k + 1, firstPath)

\* The comparator of components.sort: local first, then by name.
CompareComponents(a, b) ==
    IF a.type # b.type
    THEN (IF a.type = "local" THEN 0 - 1 ELSE 1)
    ELSE a.name - b.name

RECURSIVE InsertComponent(_, _)
InsertComponent(x, sorted) ==
    IF sorted = <<>> THEN <<x>>
    ELSE IF CompareComponents(Last(sorted), x) <= 0 THEN Append(sorted, x)
    ELSE Append(InsertComponent(x, Front(sorted)), Last(sorted))

RECURSIVE SortComponents(_)
SortComponents(components) ==
    IF components = <<>> THEN <<>>
    ELSE InsertComponent(Last(components), SortComponents(Front(components)))

DiscoverComponents ==
    /\ ~discovered.returned
    /\ discovered' =
          [returned |-> TRUE,
           components |->
               SortComponents(ScanRoot(ScanDirs(workingDir.scanned),
                                       workingDir.root, 1,
                                       Len(workingDir.scanned)))]
    /\ UNCHANGED <<space, appVars, copyVars, concurrentVars, treeVars, syncVars, fetchVars,
                   workingDir>>

DiscoverNext == DiscoverComponents

DiscoverSpec == DiscoverInit /\ [][DiscoverNext]_vars

\* -------------------------------------------------------------- fetchStories
\* StoryblokService.fetchStories, with the stories as their number. The space
\* holds `stored` stories and answers a request for a page with the stories
\* of that page and a total header, which may be missing or overstated.
PER_PAGE == 100
PAGE_LIMIT == 1000
MAX_OUTPUT_LINES == 1000

StoredCounts ==
    {k * PER_PAGE + r : k \in 0..MaxFullPages, r \in {0, 1, PER_PAGE - 1}}

FetchStoriesInit ==
    /\ space = SourceSpace
    /\ CopyIdle
    /\ AppIdle
    /\ ConcurrentIdle
    /\ TreeIdle
    /\ SyncIdle
    /\ DiscoverIdle
    /\ fetchPc = "idle"
    /\ stored \in StoredCounts
    /\ page = 1
    /\ fetched = 0
    /\ reportedTotal = 0
    /\ pageRequests = 0

NotFetching == UNCHANGED <<space, appVars, copyVars, concurrentVars, treeVars, syncVars, discoverVars>>

\* fetchStories is called: the request for page 1.
FetchStories ==
    /\ fetchPc = "idle"
    /\ fetchPc' = "waiting"
    /\ pageRequests' = pageRequests + 1
    /\ UNCHANGED <<stored, page, fetched, reportedTotal>>
    /\ NotFetching

\* data.stories of the answer to the request for page p.
StoriesOfPage(p) ==
    LET before == (p - 1) * PER_PAGE
    IN IF stored <= before THEN 0 ELSE Min(PER_PAGE, stored - before)

\* The total header: the number of stories, one more, or none ("0").
TotalHeaders == {stored, stored + 1, 0}

\* Mutant: the loop has no limit of pages.
HasMore_NoLimit(length, reported, nextPage) == length < reported

\* Whether the loop goes on after a response: hasMore, and the break.
HasMore(length, reported, nextPage) ==
    length < reported /\ ~(nextPage > PAGE_LIMIT)

\* Mutant: the next request is for the same page.
NextPage_Same(p) == p

\* page++
NextPage(p) == p + 1

\* The answer to the page request is ok: the rest of the iteration, and the
\* next request or the return.
PageResponseOk ==
    /\ fetchPc = "waiting"
    /\ \E header \in TotalHeaders :
          /\ fetched' = fetched + StoriesOfPage(page)
          /\ reportedTotal' = header
          /\ page' = NextPage(page)
          /\ IF HasMore(fetched', reportedTotal', page')
             THEN /\ fetchPc' = "waiting"
                  /\ pageRequests' = pageRequests + 1
             ELSE /\ fetchPc' = "returned"
                  /\ UNCHANGED pageRequests
    /\ UNCHANGED stored
    /\ NotFetching

\* The answer is not ok: fetchStories throws.
PageResponseNotOk ==
    /\ fetchPc = "waiting"
    /\ fetchPc' = "threw"
    /\ UNCHANGED <<stored, page, fetched, reportedTotal, pageRequests>>
    /\ NotFetching

FetchStoriesNext ==
    \/ FetchStories
    \/ PageResponseOk
    \/ PageResponseNotOk

FetchStoriesSpec == FetchStoriesInit /\ [][FetchStoriesNext]_vars

\* -------------------------------------------------------------- SbMigService
\* SbMigService: executeCommand, killCurrentProcess, isRunning and the events
\* of the spawned processes. A call of executeCommand is numbered; its entry in
\* `processes` holds the ChildProcess it spawned (status, killed, exit code)
\* and what its promise resolved with ("pending" until then).
\*   status: "unspawned" spawn threw | "failing" spawn failed, error event due
\*         | "errored" error event handled, close event due | "running"
\*         | "signalled" running, SIGTERM sent | "exited" close event due
\*         | "closed" close event handled
\* The service as one value: its field, the calls, and the output events sent
\* in this turn.
Service == [cur |-> currentProcess, procs |-> processes, out |-> <<>>]

\* this.sendOutput(event), by the type of the event.
SendOutput(s, type) == [s EXCEPT !.out = Append(@, type)]

\* Mutant: a process counts as running until it is untracked.
IsRunning_IgnoresKilled(s) == s.cur # NoProcess

\* isRunning()
IsRunning(s) == s.cur # NoProcess /\ ~s.procs[s.cur].killed

\* ChildProcess.kill('SIGTERM'): the signal is sent, and killed is set, if the
\* process still runs.
Signalled(proc) ==
    IF proc.status = "running"
    THEN [proc EXCEPT !.status = "signalled", !.killed = TRUE]
    ELSE proc

\* killCurrentProcess(), the service after it.
KillCurrent(s) ==
    IF s.cur # NoProcess /\ ~s.procs[s.cur].killed
    THEN [SendOutput(s, "info") EXCEPT !.procs[s.cur] = Signalled(@),
                                        !.cur = NoProcess]
    ELSE s

NewProcess(status, promise) ==
    [status |-> status, killed |-> FALSE, code |-> Null, promise |-> promise]

\* executeCommand up to the return of the promise. spawn returns a process
\* that runs ("running"), returns one that fails to start ("failing") or
\* throws ("unspawned").
Execute(s, spawned) ==
    LET s1 == IF IsRunning(s) THEN KillCurrent(s) ELSE s
        s2 == SendOutput(s1, "info")
        call == Len(s.procs) + 1
    IN IF spawned = "unspawned"
       THEN [SendOutput(s2, "error") EXCEPT
                !.procs = Append(@, NewProcess("unspawned", "false")),
                !.cur = NoProcess]
       ELSE [s2 EXCEPT !.procs = Append(@, NewProcess(spawned, "pending")),
                       !.cur = call]

\* resolve(value): the promise keeps the first value it is resolved with.
Resolved(promise, value) == IF promise = "pending" THEN value ELSE promise

\* The handler of the process's error event.
OnError(s, call) ==
    [SendOutput(s, "error") EXCEPT
        !.procs[call].status = "errored",
        !.procs[call].promise = Resolved(@, "false"),
        !.cur = NoProcess]

\* Mutant: the close handler resolves with success whatever the code.
OnClose_AlwaysSuccess(s, call) ==
    [SendOutput(s, "complete") EXCEPT
        !.procs[call].status = "closed",
        !.procs[call].promise = Resolved(@, "true"),
        !.cur = NoProcess]

\* The handler of the process's close event.
OnClose(s, call) ==
    [SendOutput(s, "complete") EXCEPT
        !.procs[call].status = "closed",
        !.procs[call].promise =
            Resolved(@, IF s.procs[call].code = 0 THEN "true" ELSE "false"),
        !.cur = NoProcess]

\* The code of the close event of a process that could not be spawned.
SpawnErrorCode == 0 - 2
ExitCodes == {0, 1}

\* The service after a turn; what it sent is on its way if webContents is set.
ServiceBecomes(s) ==
    /\ currentProcess' = s.cur
    /\ processes' = s.procs
    /\ outputInTransit' = IF webContents' THEN outputInTransit \o s.out
                          ELSE outputInTransit

baseVars ==
    <<space, copyVars, concurrentVars, treeVars, syncVars, discoverVars,
      fetchVars>>

NotApp ==
    UNCHANGED <<baseVars, loadVars, settingsVars, spacesVars, outputVars,
                storyCopy>>

NotService == UNCHANGED rendererVars /\ NotApp

ServiceInit ==
    /\ space = SourceSpace
    /\ CopyIdle
    /\ ConcurrentIdle
    /\ TreeIdle
    /\ SyncIdle
    /\ DiscoverIdle
    /\ FetchIdle
    /\ AppIdle

ExecuteCommand ==
    /\ Len(processes) < MaxCommands
    /\ UNCHANGED webContents
    /\ \E spawned \in {"running", "failing", "unspawned"} :
          ServiceBecomes(Execute(Service, spawned))
    /\ NotService

KillCurrentProcess ==
    /\ UNCHANGED webContents
    /\ ServiceBecomes(KillCurrent(Service))
    /\ NotService

\* A process ends by itself with an exit code, or by the signal sent to it.
ProcessExits ==
    /\ \E call \in DOMAIN processes :
          \/ /\ processes[call].status = "running"
             /\ \E code \in ExitCodes :
                   processes' = [processes EXCEPT ![call].status = "exited",
                                                  ![call].code = code]
          \/ /\ processes[call].status = "signalled"
             /\ processes' = [processes EXCEPT ![call].status = "exited"]
    /\ UNCHANGED <<currentProcess, webContents, outputInTransit>>
    /\ NotService

ProcessError ==
    /\ UNCHANGED webContents
    /\ \E call \in DOMAIN processes :
          /\ processes[call].status = "failing"
          /\ ServiceBecomes(OnError([Service EXCEPT
                 !.procs[call].code = SpawnErrorCode], call))
    /\ NotService

ProcessClose ==
    /\ UNCHANGED webContents
    /\ \E call \in DOMAIN processes :
          /\ processes[call].status \in {"exited", "errored"}
          /\ ServiceBecomes(OnClose(Service, call))
    /\ NotService

ServiceNext ==
    \/ ExecuteCommand
    \/ KillCurrentProcess
    \/ ProcessExits
    \/ ProcessError
    \/ ProcessClose

ServiceSpec == ServiceInit /\ [][ServiceNext]_vars

\* -------------------------------------------------------- loadComponentFiles
\* A path is a list of components, a component a string of characters; the
\* file system tells which paths exist. Paths are absolute.
DotDot == <<".", ".">>

Names == {<<"a">>, <<"a", "b">>}

RECURSIVE PathsOfDepth(_, _)
PathsOfDepth(components, depth) ==
    IF depth = 0 THEN {<<>>}
    ELSE {Append(q, c) : q \in PathsOfDepth(components, depth - 1), c \in components}

PathsUpTo(components, depth) ==
    UNION {PathsOfDepth(components, d) : d \in 1..depth}

\* path.normalize of an absolute path: ".." removes the component before it,
\* and is dropped at the root.
RECURSIVE Resolve(_, _)
Resolve(done, rest) ==
    IF rest = <<>> THEN done
    ELSE IF Head(rest) = DotDot
         THEN Resolve(IF done = <<>> THEN done
                      ELSE SubSeq(done, 1, Len(done) - 1), Tail(rest))
         ELSE Resolve(Append(done, Head(rest)), Tail(rest))

\* The characters of a normalized path.
RECURSIVE PathString(_)
PathString(components) ==
    IF components = <<>> THEN <<>>
    ELSE <<"/">> \o Head(components) \o PathString(Tail(components))

\* path.join(f) with one argument: the normalized path, as a string.
Join(f) ==
    IF Resolve(<<>>, f) = <<>> THEN <<"/">> ELSE PathString(Resolve(<<>>, f))

\* String.prototype.startsWith
StartsWith(str, prefix) ==
    /\ Len(prefix) <= Len(str)
    /\ SubSeq(str, 1, Len(prefix)) = prefix

\* The filter of validFiles.
IsValidFile(entry, dir) ==
    /\ entry.exists
    /\ StartsWith(Join(entry.file), Join(dir))

LoadInit ==
    /\ space = SourceSpace
    /\ CopyIdle
    /\ ConcurrentIdle
    /\ TreeIdle
    /\ SyncIdle
    /\ DiscoverIdle
    /\ FetchIdle
    /\ ProcessIdle
    /\ RendererIdle
    /\ SettingsIdle
    /\ SpacesIdle
    /\ OutputIdle
    /\ StoryCopyIdle
    /\ loadedFiles = {}
    /\ \E n \in 0..MaxPaths :
       \E list \in [1..n -> [file : PathsUpTo(Names \cup {DotDot}, MaxPathDepth),
                             exists : BOOLEAN]] :
       \E dir \in PathsUpTo(Names, MaxPathDepth) :
          loadArgs = [called |-> FALSE, filePaths |-> list, workingDir |-> dir]

\* loadComponentFiles: every valid file is compiled (TypeScript) or required.
LoadComponentFiles ==
    /\ ~loadArgs.called
    /\ loadArgs' = [loadArgs EXCEPT !.called = TRUE]
    /\ loadedFiles' =
          {loadArgs.filePaths[j].file : j \in
              {i \in DOMAIN loadArgs.filePaths :
                  IsValidFile(loadArgs.filePaths[i], loadArgs.workingDir)}}
    /\ UNCHANGED <<baseVars, processVars, rendererVars, settingsVars, spacesVars,
                   outputVars, storyCopy>>

LoadNext == LoadComponentFiles

LoadSpec == LoadInit /\ [][LoadNext]_vars

\* ------------------------------------------------------------ settings store
\* The two database services, cached and uncached, given the same calls. A
\* store is [db, table, cache]; the uncached one has no cache.
CachedStore == [db |-> db, table |-> settings, cache |-> settingsCache]

PlainStore == [db |-> plainDb, table |-> plainSettings]

InitDatabase(st) == [st EXCEPT !.db = TRUE]

CloseDatabase(st) == [st EXCEPT !.db = FALSE]

\* getSetting (cached): the store after the call and the value returned.
GetSetting(st, key) ==
    IF st.cache[key] # Absent THEN [store |-> st, value |-> st.cache[key]]
    ELSE IF ~st.db THEN [store |-> st, value |-> NullValue]
    ELSE [store |-> [st EXCEPT !.cache[key] = st.table[key]],
          value |-> st.table[key]]

\* Mutant: setSetting leaves settingsCache alone.
SetSetting_TableOnly(st, key, value) ==
    IF ~st.db THEN st
    ELSE [st EXCEPT !.table[key] = value]

\* setSetting (cached)
SetSetting(st, key, value) ==
    IF ~st.db THEN st
    ELSE [st EXCEPT !.table[key] = value, !.cache[key] = value]

\* deleteSetting (cached)
DeleteSetting(st, key) ==
    IF ~st.db THEN st
    ELSE [st EXCEPT !.table[key] = NullValue, !.cache[key] = Absent]

\* getSetting (uncached): the value returned.
PlainGetSetting(st, key) == IF ~st.db THEN NullValue ELSE st.table[key]

\* setSetting (uncached)
PlainSetSetting(st, key, value) ==
    IF ~st.db THEN st ELSE [st EXCEPT !.table[key] = value]

\* deleteSetting (uncached)
PlainDeleteSetting(st, key) ==
    IF ~st.db THEN st ELSE [st EXCEPT !.table[key] = NullValue]

StoresBecome(cached, plain) ==
    /\ db' = cached.db
    /\ settings' = cached.table
    /\ settingsCache' = cached.cache
    /\ plainDb' = plain.db
    /\ plainSettings' = plain.table

NotSettings ==
    UNCHANGED <<baseVars, processVars, rendererVars, loadVars, spacesVars,
                outputVars, storyCopy>>

\* The database file holds the rows of earlier sessions.
SettingsInit ==
    /\ space = SourceSpace
    /\ CopyIdle
    /\ ConcurrentIdle
    /\ TreeIdle
    /\ SyncIdle
    /\ DiscoverIdle
    /\ FetchIdle
    /\ ProcessIdle
    /\ RendererIdle
    /\ LoadIdle
    /\ SpacesIdle
    /\ OutputIdle
    /\ StoryCopyIdle
    /\ db = FALSE
    /\ plainDb = FALSE
    /\ settings \in [Keys -> Values \cup {NullValue}]
    /\ plainSettings = settings
    /\ settingsCache = [k \in Keys |-> Absent]
    /\ got = NoCall
    /\ settingHistory = [inited |-> FALSE, closed |-> FALSE,
                         last |-> [k \in Keys |-> "none"]]

InitDatabaseCall ==
    /\ StoresBecome(InitDatabase(CachedStore), InitDatabase(PlainStore))
    /\ got' = NoCall
    /\ settingHistory' = [settingHistory EXCEPT !.inited = TRUE]
    /\ NotSettings

CloseDatabaseCall ==
    /\ StoresBecome(CloseDatabase(CachedStore), CloseDatabase(PlainStore))
    /\ got' = NoCall
    /\ settingHistory' = [settingHistory EXCEPT !.closed = TRUE]
    /\ NotSettings

GetSettingCall ==
    /\ \E key \in Keys :
          /\ StoresBecome(GetSetting(CachedStore, key).store, PlainStore)
          /\ got' = [called |-> TRUE, key |-> key,
                     value |-> GetSetting(CachedStore, key).value,
                     plainValue |-> PlainGetSetting(PlainStore, key)]
    /\ UNCHANGED settingHistory
    /\ NotSettings

SetSettingCall ==
    /\ \E key \in Keys, value \in Values :
          /\ StoresBecome(SetSetting(CachedStore, key, value),
                          PlainSetSetting(PlainStore, key, value))
          /\ settingHistory' =
                IF settingHistory.inited
                THEN [settingHistory EXCEPT !.last[key] = value]
                ELSE settingHistory
    /\ got' = NoCall
    /\ NotSettings

DeleteSettingCall ==
    /\ \E key \in Keys :
          /\ StoresBecome(DeleteSetting(CachedStore, key),
                          PlainDeleteSetting(PlainStore, key))
          /\ settingHistory' =
                IF settingHistory.inited
                THEN [settingHistory EXCEPT !.last[key] = "deleted"]
                ELSE settingHistory
    /\ got' = NoCall
    /\ NotSettings

SettingsNext ==
    \/ InitDatabaseCall
    \/ CloseDatabaseCall
    \/ GetSettingCall
    \/ SetSettingCall
    \/ DeleteSettingCall

SettingsSpec == SettingsInit /\ [][SettingsNext]_vars

\* --------------------------------------------------------- configured spaces
\* The spaces of the Settings screen and the two settings that keep them. A
\* space is modelled by its id; a handler runs to its end before the next
\* one starts.
SpacesInit ==
    /\ space = SourceSpace
    /\ CopyIdle
    /\ OthersIdle

NotSpaces ==
    UNCHANGED <<baseVars, processVars, rendererVars, loadVars, settingsVars,
                outputVars, storyCopy>>

\* spaces.filter((s) => s.id !== id)
RECURSIVE WithoutSpace(_, _)
WithoutSpace(list, id) ==
    IF list = <<>> THEN <<>>
    ELSE IF Head(list) = id THEN WithoutSpace(Tail(list), id)
         ELSE <<Head(list)>> \o WithoutSpace(Tail(list), id)

\* window.sbmigGui.db.setSetting(key, value): the call travels to the main
\* process.
SetSettingSent(writes, key, value) ==
    Append(writes, [key |-> key, value |-> value])

\* SettingsScreen.handleAddSpace
HandleAddSpace ==
    /\ uuids < MaxSpaces
    /\ Len(settingWrites) + 2 <= MaxWrites
    /\ uuids' = uuids + 1
    /\ spaces' = Append(spaces, uuids + 1)
    /\ IF activeSpaceId = NoSpace
       THEN /\ activeSpaceId' = uuids + 1
            /\ settingWrites' =
                  SetSettingSent(
                      SetSettingSent(settingWrites, "sbmig_spaces",
                                     Append(spaces, uuids + 1)),
                      "sbmig_active_space", uuids + 1)
       ELSE /\ UNCHANGED activeSpaceId
            /\ settingWrites' =
                  SetSettingSent(settingWrites, "sbmig_spaces",
                                 Append(spaces, uuids + 1))
    /\ UNCHANGED <<savedSpaces, savedActiveSpace>>
    /\ NotSpaces

\* newSpaces[0]?.id || null
FirstSpace(list) == IF list = <<>> THEN NoSpace ELSE Head(list)

\* if (newActiveId) await ...setSetting('sbmig_active_space', newActiveId)
ActiveSpaceWrites(writes, newActiveId) ==
    IF newActiveId # NoSpace
    THEN SetSettingSent(writes, "sbmig_active_space", newActiveId)
    ELSE writes

\* SettingsScreen.handleDeleteSpace
HandleDeleteSpace ==
    /\ Len(settingWrites) + 2 <= MaxWrites
    /\ \E j \in DOMAIN spaces :
          LET id == spaces[j]
              newSpaces == WithoutSpace(spaces, id)
              sent == SetSettingSent(settingWrites, "sbmig_spaces", newSpaces)
          IN /\ spaces' = newSpaces
             /\ IF activeSpaceId = id
                THEN /\ activeSpaceId' = FirstSpace(newSpaces)
                     /\ settingWrites' =
                           ActiveSpaceWrites(sent, FirstSpace(newSpaces))
                ELSE /\ UNCHANGED activeSpaceId
                     /\ settingWrites' = sent
    /\ UNCHANGED <<uuids, savedSpaces, savedActiveSpace>>
    /\ NotSpaces

\* App.handleSpaceSelect, from the list of spaces in the sidebar.
HandleSpaceSelect ==
    /\ Len(settingWrites) < MaxWrites
    /\ \E j \in DOMAIN spaces :
          /\ activeSpaceId' = spaces[j]
          /\ settingWrites' =
                SetSettingSent(settingWrites, "sbmig_active_space", spaces[j])
    /\ UNCHANGED <<spaces, savedSpaces, savedActiveSpace, uuids>>
    /\ NotSpaces

\* ipcMain.handle("db:setSetting"): the row of the key gets the value.
MainSetSetting ==
    /\ settingWrites # <<>>
    /\ settingWrites' = Tail(settingWrites)
    /\ IF Head(settingWrites).key = "sbmig_spaces"
       THEN /\ savedSpaces' = Head(settingWrites).value
            /\ UNCHANGED savedActiveSpace
       ELSE /\ savedActiveSpace' = Head(settingWrites).value
            /\ UNCHANGED savedSpaces
    /\ UNCHANGED <<spaces, activeSpaceId, uuids>>
    /\ NotSpaces

\* The application restarts with every write done: App.loadConfig on fresh
\* state.
LoadConfig ==
    /\ settingWrites = <<>>
    /\ spaces' = savedSpaces
    /\ activeSpaceId' = savedActiveSpace
    /\ UNCHANGED <<savedSpaces, savedActiveSpace, uuids, settingWrites>>
    /\ NotSpaces

SpacesNext ==
    \/ HandleAddSpace
    \/ HandleDeleteSpace
    \/ HandleSpaceSelect
    \/ MainSetSetting
    \/ LoadConfig

SpacesSpec == SpacesInit /\ [][SpacesNext]_vars

\* ----------------------------------------------------------------- useOutput
\* A line is modelled by the id the hook gives it.
OutputInit ==
    /\ space = SourceSpace
    /\ CopyIdle
    /\ OthersIdle

NotOutput ==
    UNCHANGED <<baseVars, processVars, rendererVars, loadVars, settingsVars,
                spacesVars, storyCopy>>

\* Mutant: the first MAX_OUTPUT_LINES lines are kept.
Capped_KeepsFirst(newLines) ==
    IF Len(newLines) > MAX_OUTPUT_LINES
    THEN SubSeq(newLines, 1, MAX_OUTPUT_LINES)
    ELSE newLines

\* newLines.length > MAX_OUTPUT_LINES ? newLines.slice(-MAX_OUTPUT_LINES)
\*                                    : newLines
Capped(newLines) ==
    IF Len(newLines) > MAX_OUTPUT_LINES
    THEN SubSeq(newLines, Len(newLines) - MAX_OUTPUT_LINES + 1, Len(newLines))
    ELSE newLines

\* lines.map(...): the n lines with the next ids.
NewLines(n) == [j \in 1..n |-> [id |-> lineId + j - 1]]

\* addLines, with n lines.
AddLinesCall(n) ==
    /\ Len(linesAdded) + n <= MaxAdded
    /\ output' = Capped(output \o NewLines(n))
    /\ lineId' = lineId + n
    /\ linesAdded' = linesAdded \o NewLines(n)
    /\ NotOutput

\* addLine
AddLine ==
    /\ Len(linesAdded) < MaxAdded
    /\ output' = Capped(Append(output, [id |-> lineId]))
    /\ lineId' = lineId + 1
    /\ linesAdded' = Append(linesAdded, [id |-> lineId])
    /\ NotOutput

AddLines == \E n \in 0..MaxBatch : AddLinesCall(n)

\* clear
Clear ==
    /\ output' = <<>>
    /\ lineId' = 0
    /\ linesAdded' = <<>>
    /\ NotOutput

OutputNext ==
    \/ AddLine
    \/ AddLines
    \/ Clear

OutputSpec == OutputInit /\ [][OutputNext]_vars

\* ---------------------------------------------------------- executeStoryCopy
\* The copy started from the modal: the slug lookup of the destination path
\* in the target space, then the copyStories call modelled above.
DestinationPaths == {"", " ", "folder", "nowhere"}

\* String.prototype.trim
Trim(str) == IF str = " " THEN "" ELSE str

\* The stories of the target space with the slug: the folder has the id 500.
StoriesWithSlug(slug) == IF slug = "folder" THEN <<500>> ELSE <<>>

\* getStoryBySlug, the fetch answered: data.stories?.[0] || null, and null
\* for an answer that is not ok.
GetStoryBySlug(slug, ok) ==
    IF ~ok THEN Null
    ELSE IF StoriesWithSlug(slug) = <<>> THEN Null
         ELSE Head(StoriesWithSlug(slug))

StoryCopyInit ==
    /\ space = SourceSpace
    /\ ConcurrentIdle /\ TreeIdle /\ SyncIdle /\ DiscoverIdle /\ FetchIdle
    /\ ProcessIdle
    /\ RendererIdle
    /\ LoadIdle
    /\ SettingsIdle
    /\ SpacesIdle
    /\ OutputIdle
    /\ storyIds \in AscendingIdLists(MaxSelected, 1) \ {<<>>}
    /\ destinationParentId = Null
    /\ LocalsInitial
    /\ \E path \in DestinationPaths :
          storyCopy = [step |-> "idle", destinationPath |-> path, lookup |-> "none"]

CallUnchanged ==
    UNCHANGED <<space, pc, storyIds, batchStart, fetches, storiesToCopy,
                errors, copiedCount, tree, idMap, requests, frames, result,
                events, lastCurrent, concurrentVars, treeVars, syncVars,
                discoverVars, fetchVars, processVars, rendererVars, loadVars,
                settingsVars, spacesVars, outputVars>>

\* executeStoryCopy up to its first await.
ExecuteStoryCopy ==
    /\ storyCopy.step = "idle"
    /\ storyCopy' =
          IF Trim(storyCopy.destinationPath) # ""
          THEN [storyCopy EXCEPT !.step = "lookup", !.lookup = "pending"]
          ELSE [storyCopy EXCEPT !.step = "invoke"]
    /\ UNCHANGED destinationParentId
    /\ CallUnchanged

\* The lookup returns a story or null: if (destStory) destinationParentId =
\* destStory.id; then copyStories is invoked.
GetStoryBySlugReturns ==
    /\ storyCopy.step = "lookup"
    /\ \E ok \in BOOLEAN :
          LET destStory == GetStoryBySlug(Trim(storyCopy.destinationPath), ok)
          IN /\ destinationParentId' = destStory
             /\ storyCopy' =
                   [storyCopy EXCEPT
                       !.step = "invoke",
                       !.lookup = IF destStory # Null THEN "found"
                                  ELSE IF ok THEN "no match" ELSE "not ok"]
    /\ CallUnchanged

\* The fetch of the lookup throws (network failure): the catch of
\* executeStoryCopy.
GetStoryBySlugThrows ==
    /\ storyCopy.step = "lookup"
    /\ storyCopy' = [storyCopy EXCEPT !.step = "failed", !.lookup = "threw"]
    /\ UNCHANGED destinationParentId
    /\ CallUnchanged

\* window.sbmigGui.apiV2.copyStories(..., destinationParentId, oauthToken)
InvokeCopyStories ==
    /\ storyCopy.step = "invoke"
    /\ CopyStories

StoryCopyNext ==
    \/ ExecuteStoryCopy
    \/ GetStoryBySlugReturns
    \/ GetStoryBySlugThrows
    \/ InvokeCopyStories
    \/ FetchStoryFulfilled
    \/ FetchStoryRejected
    \/ CreateStoryFulfilled
    \/ CreateStoryRejected

StoryCopySpec == StoryCopyInit /\ [][StoryCopyNext]_vars

\* ----------------------------------------------------- App and SbMigService
\* The window (App) and the main process: requests travel to the main process
\* in order, output events to the window in order, replies on their own.
AppInit == ServiceInit

\* App.executeCommand, with a working directory selected.
AppExecuteCommand ==
    /\ ~isRunning
    /\ Cardinality({j \in 1..Len(toMain) : toMain[j] = "execute"})
           + Len(processes) < MaxCommands
    /\ isRunning' = TRUE
    /\ toMain' = Append(toMain, "execute")
    /\ UNCHANGED <<killReplies, processVars>>
    /\ NotApp

\* App.handleKillProcess up to its await; the Stop button is shown while
\* isRunning.
AppKillProcess ==
    /\ isRunning
    /\ Len(toMain) + killReplies < MaxInTransit
    /\ toMain' = Append(toMain, "killProcess")
    /\ UNCHANGED <<isRunning, killReplies, processVars>>
    /\ NotApp

\* ipcMain.handle("sbmig:execute")
MainExecute ==
    /\ toMain # <<>> /\ Head(toMain) = "execute"
    /\ toMain' = Tail(toMain)
    /\ webContents' = TRUE
    /\ \E spawned \in {"running", "failing", "unspawned"} :
          ServiceBecomes(Execute(Service, spawned))
    /\ UNCHANGED <<isRunning, killReplies>>
    /\ NotApp

\* ipcMain.handle("sbmig:killProcess")
MainKillProcess ==
    /\ toMain # <<>> /\ Head(toMain) = "killProcess"
    /\ toMain' = Tail(toMain)
    /\ UNCHANGED webContents
    /\ ServiceBecomes(KillCurrent(Service))
    /\ killReplies' = killReplies + 1
    /\ UNCHANGED isRunning
    /\ NotApp

\* App.handleKillProcess after its await.
AppKillProcessReplied ==
    /\ killReplies > 0
    /\ killReplies' = killReplies - 1
    /\ isRunning' = FALSE
    /\ UNCHANGED <<toMain, processVars>>
    /\ NotApp

\* The onOutput callback of App: isRunning after an event of the type.
AfterOutput(running, type) == IF type = "complete" THEN FALSE ELSE running

AppOnOutput ==
    /\ outputInTransit # <<>>
    /\ outputInTransit' = Tail(outputInTransit)
    /\ isRunning' = AfterOutput(isRunning, Head(outputInTransit))
    /\ UNCHANGED <<toMain, killReplies, currentProcess, processes, webContents>>
    /\ NotApp

AppNext ==
    \/ AppExecuteCommand
    \/ AppKillProcess
    \/ MainExecute
    \/ MainKillProcess
    \/ AppKillProcessReplied
    \/ AppOnOutput
    \/ ProcessExits
    \/ ProcessError
    \/ ProcessClose

AppSpec == AppInit /\ [][AppNext]_vars

\* --------------------------------------------------------- concurrent calls
\* Two calls of copyStories on the one StoryblokService, e.g. from two
\* invocations of the IPC handler. Each call is followed twice: among the
\* other call (`calls`) and alone (`alone`), both given the same responses.
CallIds == {1, 2}

ConcurrentIdLists ==
    {[j \in 1..(b - a + 1) |-> a + j - 1] :
        a \in 1..MaxConcurrentIds, b \in 1..MaxConcurrentIds} \ {<<>>}

\* Mutant: errors, copiedCount and idMap are fields of the service, written
\* by every call.
StoreLocals_OnService(all, c, t) ==
    [d \in DOMAIN all |->
        IF d = c THEN t
        ELSE [all[d] EXCEPT !.errors = t.errors,
                            !.copiedCount = t.copiedCount,
                            !.idMap = t.idMap]]

\* The locals of call c become those of t: storiesToCopy, errors,
\* copiedCount, idMap and the closures over them are created by the call.
StoreLocals(all, c, t) == [all EXCEPT ![c] = t]

\* One turn of call c, among the other call and alone.
ConcurrentTurn(c, among, single) ==
    /\ calls' = StoreLocals(calls, c, among)
    /\ alone' = [alone EXCEPT ![c] = single]
    /\ UNCHANGED <<space, appVars, copyVars, treeVars, syncVars, discoverVars, fetchVars>>

ConcurrentInit ==
    /\ space = SourceSpace
    /\ CopyIdle
    /\ AppIdle
    /\ TreeIdle
    /\ SyncIdle
    /\ DiscoverIdle
    /\ FetchIdle
    /\ calls \in [CallIds -> {NewCall(ids, Null) : ids \in ConcurrentIdLists}]
    /\ alone = calls

ConcurrentCopyStories ==
    \E c \in CallIds :
        /\ calls[c].pc = "idle"
        /\ ConcurrentTurn(c, FetchLoop(Turn(calls[c])), FetchLoop(Turn(alone[c])))

\* Whether fetch k of the call is awaited, among the other call and alone.
FetchAwaited(c, k) ==
    /\ calls[c].pc = "fetching" /\ alone[c].pc = "fetching"
    /\ k \in DOMAIN calls[c].fetches /\ k \in DOMAIN alone[c].fetches
    /\ calls[c].fetches[k] = "inflight" /\ alone[c].fetches[k] = "inflight"

ConcurrentFetchStorySettled ==
    \E c \in CallIds, outcome \in {"fulfilled", "rejected"} :
        \E k \in DOMAIN calls[c].fetches :
            /\ FetchAwaited(c, k)
            /\ ConcurrentTurn(c, FetchSettled(Turn(calls[c]), k, outcome),
                                 FetchSettled(Turn(alone[c]), k, outcome))

\* Whether the createStory request at path is awaited, among the other call
\* and alone.
CreateAwaited(c, path) ==
    /\ calls[c].pc = "creating" /\ alone[c].pc = "creating"
    /\ path \in DOMAIN calls[c].requests /\ path \in DOMAIN alone[c].requests
    /\ calls[c].requests[path].status = "inflight"
    /\ alone[c].requests[path].status = "inflight"

ConcurrentCreateStoryFulfilled ==
    \E c \in CallIds :
        \E path \in DOMAIN calls[c].requests :
            /\ CreateAwaited(c, path)
            /\ ConcurrentTurn(c, CreateFulfilled(Turn(calls[c]), path),
                                 CreateFulfilled(Turn(alone[c]), path))

ConcurrentCreateStoryRejected ==
    \E c \in CallIds :
        \E path \in DOMAIN calls[c].requests :
            /\ CreateAwaited(c, path)
            /\ ConcurrentTurn(c, CreateRejected(Turn(calls[c]), path),
                                 CreateRejected(Turn(alone[c]), path))

ConcurrentNext ==
    \/ ConcurrentCopyStories
    \/ ConcurrentFetchStorySettled
    \/ ConcurrentCreateStoryFulfilled
    \/ ConcurrentCreateStoryRejected

ConcurrentSpec == ConcurrentInit /\ [][ConcurrentNext]_vars

\* copyStories called with lists that name each id once.
SpecDistinct == InitDistinct /\ [][Next]_vars


\* ------------------------------------------------------------------- claims
WorkingSet == {storiesToCopy[k] : k \in 1..Len(storiesToCopy)}

InFlight == {p \in DOMAIN requests : requests[p].status = "inflight"}

\* Whether the parent record of node n is in the working set.
HasParentInWorkingSet(n) ==
    /\ StoryParentId(n) # Null
    /\ StoryParentId(n) # 0
    /\ StoryParentId(n) \in WorkingSet

\* C1: every creation request for a node whose parent record is in the working
\* set carries as parent_id the new id of a creation of that parent that has
\* already succeeded; every creation request for a root of the forest carries
\* destinationParentId.
C1_ParentIdOfRequests ==
    \A p \in DOMAIN requests :
        LET n == requests[p].node
        IN IF HasParentInWorkingSet(n)
           THEN \E q \in DOMAIN requests :
                   /\ requests[q].node = StoryParentId(n)
                   /\ requests[q].status = "created"
                   /\ requests[q].newId = requests[p].parent_id
           ELSE requests[p].parent_id = destinationParentId

\* A child has been created under a created parent, below a destination folder.
C1_Witness ==
    /\ destinationParentId # Null
    /\ \E p \in DOMAIN requests :
          /\ HasParentInWorkingSet(requests[p].node)
          /\ requests[p].status = "created"

\* Whether path p lies strictly below path q in the forest.
IsBelow(p, q) == Len(p) > Len(q) /\ SubSeq(p, 1, Len(q)) = q

\* The sibling list the createSiblingsInBatches call at `fp` walks.
SiblingList(fp) ==
    IF fp = <<>> THEN tree.roots ELSE tree.children[requests[fp].node]

\* C2: a failed creation has no creation request below it, at any time; and
\* once copyStories has returned, every root and every child of a created
\* node has had its creation request, whatever failed next to it.
C2_FailureStopsOnlyItsSubtree ==
    /\ \A p \in DOMAIN requests :
          requests[p].status = "failed" =>
              ~ \E q \in DOMAIN requests : IsBelow(q, p)
    /\ pc = "done" =>
          /\ \A k \in 1..Len(tree.roots) : <<k>> \in DOMAIN requests
          /\ \A p \in DOMAIN requests :
                requests[p].status = "created" =>
                    \A k \in 1..Len(tree.children[requests[p].node]) :
                        Append(p, k) \in DOMAIN requests

\* copyStories has returned after the creation of a node with children failed
\* in the first batch of its sibling list, and a sibling of that batch and one
\* of the next batch were created all the same.
C2_Witness ==
    /\ pc = "done"
    /\ \E p \in DOMAIN requests :
          /\ requests[p].status = "failed"
          /\ Len(tree.children[requests[p].node]) > 0
          /\ \E q \in DOMAIN requests :
                /\ Front(q) = Front(p)
                /\ Last(q) > SIBLING_BATCH_SIZE
                /\ requests[q].status = "created"
          /\ \E q \in DOMAIN requests :
                /\ Front(q) = Front(p)
                /\ Last(q) <= SIBLING_BATCH_SIZE
                /\ requests[q].status = "created"

\* Depth of a creation request in the forest (roots have depth 1).
Depth(p) == Len(p)

\* Whether every creation request of depth d has settled: none is in flight
\* and no sibling list of that depth has a batch left to submit.
LevelSettled(d) ==
    /\ \A p \in InFlight : Depth(p) # d
    /\ \A fp \in DOMAIN frames :
          Depth(fp) + 1 = d =>
              frames[fp].i + SIBLING_BATCH_SIZE >= Len(frames[fp].nodes)

\* C3: no creation request for a node at depth d+1 is submitted until every
\* creation request for the nodes at depth d has settled.
C3_LevelByLevel ==
    [][\A q \in (DOMAIN requests') \ (DOMAIN requests) :
           LevelSettled(Depth(q) - 1)']_vars

\* C4: at most 3 story-creation requests are in flight at any moment.
C4_AtMostThreeInFlight == Cardinality(InFlight) <= SIBLING_BATCH_SIZE

\* The number of the batch of size `size` that holds index k (from 0).
BatchOf(k, size) == (k - 1) \div size

\* C5: the fetches are issued in consecutive batches of at most 5: at most 5
\* are in flight, the fetches issued so far are those of the first batches,
\* and a fetch is issued only when every fetch of the batches before its own
\* has settled.
C5_FetchBatches ==
    /\ Cardinality({k \in DOMAIN fetches : fetches[k] = "inflight"}) <= BATCH_SIZE
    /\ \E m \in 0..Len(storyIds) :
          /\ DOMAIN fetches = 1..m
          /\ m = Len(storyIds) \/ m % BATCH_SIZE = 0
    /\ \A k \in DOMAIN fetches : \A j \in DOMAIN fetches :
          BatchOf(j, BATCH_SIZE) < BatchOf(k, BATCH_SIZE) =>
              fetches[j] # "inflight"

\* A fetch of the second batch is in flight after a fetch of the first failed.
C5_Witness ==
    \E k \in DOMAIN fetches :
        /\ k > BATCH_SIZE
        /\ fetches[k] = "inflight"
        /\ \E j \in 1..BATCH_SIZE : fetches[j] = "rejected"

\* C6: within one sibling list the creations are submitted in list order, in
\* consecutive batches of at most 3, and a creation is submitted only when
\* every creation of the batches before its own has settled.
C6_SiblingBatches ==
    \A p \in DOMAIN requests :
        LET fp == Front(p)
            siblings == {q \in DOMAIN requests : Front(q) = fp}
        IN /\ Last(p) \in 1..Len(SiblingList(fp))
           /\ requests[p].node = SiblingList(fp)[Last(p)]
           /\ \A k \in 1..(Last(p) - 1) : Append(fp, k) \in DOMAIN requests
           /\ Cardinality(siblings \cap InFlight) <= SIBLING_BATCH_SIZE
           /\ \A q \in siblings :
                 BatchOf(Last(q), SIBLING_BATCH_SIZE)
                     < BatchOf(Last(p), SIBLING_BATCH_SIZE) =>
                         requests[q].status # "inflight"

\* The second batch of a sibling list is in flight, after a first batch in
\* which one creation failed.
C6_Witness ==
    \E p \in InFlight :
        /\ Last(p) > SIBLING_BATCH_SIZE
        /\ \E q \in DOMAIN requests :
              Front(q) = Front(p) /\ requests[q].status = "failed"

\* C7: the result has success = true if and only if its errors list is empty.
C7_SuccessIffNoErrors ==
    pc = "done" => (result.success <=> result.errors = <<>>)

\* copyStories returned with errors although it had copied every story it
\* had fetched.
C7_Witness ==
    /\ pc = "done"
    /\ result.errors # <<>>
    /\ result.copiedCount > 0
    /\ result.copiedCount = Len(storiesToCopy)

\* The indices of storyIds whose fetch failed.
FailedFetches == {k \in DOMAIN fetches : fetches[k] = "rejected"}

\* C8: copiedCount <= number of successfully fetched records
\* <= recordIds.length, also for a list that repeats an id.
C8_CopiedAtMostFetched ==
    pc = "done" =>
        /\ result.copiedCount <= Len(storiesToCopy)
        /\ Len(storiesToCopy) <= Len(storyIds)

\* C9: if k of the n requested ids fail to fetch and every creation request
\* succeeds, the result has copiedCount = n - k, exactly k errors, one per
\* failed id, and success = false whenever k > 0.
C9_PartialFetchFailure ==
    (pc = "done" /\ \A p \in DOMAIN requests : requests[p].status = "created") =>
        LET n == Len(storyIds)
            k == Cardinality(FailedFetches)
        IN /\ result.copiedCount = n - k
           /\ Len(result.errors) = k
           /\ \A i \in FailedFetches :
                 \E e \in 1..Len(result.errors) :
                     result.errors[e] = [kind |-> "fetch", id |-> storyIds[i]]
           /\ k > 0 => ~result.success

\* The creation requests that failed.
FailedCreations == {p \in DOMAIN requests : requests[p].status = "failed"}

\* The remote calls that have settled so far.
SettledCalls ==
    Cardinality({k \in DOMAIN fetches : fetches[k] # "inflight"})
        + Cardinality((DOMAIN requests) \ InFlight)

\* C10: copyStories never rejects; as long as it has not resolved it waits for
\* a remote call that is in flight, and each of its steps is the settling of
\* one more remote call, so that it resolves once all of them have settled;
\* the value it resolves with is {success, copiedCount, errors}, with one
\* entry of errors for every fetch and every creation that failed.
C10_ResolvesNeverRejects ==
    /\ [](pc \in {"idle", "fetching", "creating", "done"})
    /\ [](pc = "fetching" => \E k \in DOMAIN fetches : fetches[k] = "inflight")
    /\ [](pc = "creating" => InFlight # {})
    /\ [][pc # "idle" => SettledCalls' = SettledCalls + 1]_vars
    /\ [](pc = "done" =>
            /\ DOMAIN result = {"success", "copiedCount", "errors"}
            /\ Len(result.errors) =
                   Cardinality(FailedFetches) + Cardinality(FailedCreations))

\* copyStories resolved after a fetch failed and a creation failed.
C10_Witness ==
    /\ pc = "done"
    /\ FailedFetches # {}
    /\ FailedCreations # {}
    /\ result.copiedCount > 0

\* ---------------------------------------------------------- progress events
\* The `current` values in the order onProgress received them: the last one of
\* the turns before, then those of this turn.
Currents ==
    (IF lastCurrent = Null THEN <<>> ELSE <<lastCurrent>>)
        \o [j \in 1..Len(events) |-> events[j].current]

\* C11: during one copyStories call the `current` values of the progress
\* events (fetch phase, creation, final event) never decrease from one event
\* to the next.
C11_CurrentNonDecreasing ==
    \A j \in 1..(Len(Currents) - 1) : Currents[j] <= Currents[j + 1]

IsTerminal(e) == e.status \in {"done", "error"}

\* C12: a copyStories call emits exactly one progress event with status done
\* or error: none while it runs, and when it has returned it is the last event,
\* labelled "Complete", with current = copiedCount, total = the size of the
\* working set, and status done exactly when errors is empty.
C12_OneFinalEvent ==
    /\ pc # "done" => \A j \in 1..Len(events) : ~IsTerminal(events[j])
    /\ pc = "done" =>
        /\ Len(events) > 0
        /\ \A j \in 1..(Len(events) - 1) : ~IsTerminal(events[j])
        /\ IsTerminal(Last(events))
        /\ Last(events).currentStory = [kind |-> "Complete"]
        /\ Last(events).current = copiedCount
        /\ Last(events).total = Len(storiesToCopy)
        /\ Last(events).status = "done" <=> errors = <<>>

\* copyStories returned after a fetch failed and a story was created: the
\* final event counts fewer stories than were requested and reports an error.
C12_Witness ==
    /\ pc = "done"
    /\ FailedFetches # {}
    /\ copiedCount > 0
    /\ Last(events).status = "error"
    /\ Last(events).total < Len(storyIds)

RecordIds == {records[j] : j \in 1..Len(records)}

\* The nodes of a forest, each as often as it is reached from the list.
RECURSIVE NodesOf(_, _)
NodesOf(nodes, children) ==
    IF nodes = <<>> THEN <<>>
    ELSE <<Head(nodes)>> \o NodesOf(children[Head(nodes)], children)
                         \o NodesOf(Tail(nodes), children)

ForestNodes == NodesOf(forest.roots, forest.children)

Occurrences(list, x) == Cardinality({j \in 1..Len(list) : list[j] = x})

\* C14: the forest buildTree returns for N records with unique ids has exactly
\* N nodes, every record reached exactly once from the root list, and a record
\* whose parent id is the id of a record of the list is a child of that
\* record's node.
C14_ForestHasEveryRecordOnce ==
    forest.returned =>
        /\ Len(ForestNodes) = Len(records)
        /\ \A id \in RecordIds : Occurrences(ForestNodes, id) = 1
        /\ \A id \in RecordIds :
              StoryParentId(id) \in RecordIds =>
                  Occurrences(forest.children[StoryParentId(id)], id) = 1

\* C15: a record is in the root list exactly when its parent id is null, 0 or
\* the id of no record of the list; otherwise it is in the children of the
\* record with that id; it is in no other list.
C15_RootsAndChildren ==
    forest.returned =>
        \A id \in RecordIds :
            LET p == StoryParentId(id)
                isRoot == p = Null \/ p = 0 \/ p \notin RecordIds
            IN /\ Occurrences(forest.roots, id) = (IF isRoot THEN 1 ELSE 0)
               /\ \A q \in RecordIds :
                     Occurrences(forest.children[q], id) =
                         (IF ~isRoot /\ q = p THEN 1 ELSE 0)

\* buildTree returned for three records: one with a parent outside the list,
\* one with parent id 0 and one that is their sibling's child.
C15_Witness ==
    /\ forest.returned
    /\ Len(records) = 3
    /\ StoryParentId(1) = AbsentId(3)
    /\ StoryParentId(2) = 0
    /\ StoryParentId(3) = 1
    /\ forest.children[1] = <<3>>

\* Whether a may stand before b: folders before the others, then the lower
\* position, then the lower name.
MayPrecede(a, b) ==
    \/ StoryIsFolder(a) /\ ~StoryIsFolder(b)
    \/ /\ StoryIsFolder(a) = StoryIsFolder(b)
       /\ \/ StoryPosition(a) < StoryPosition(b)
          \/ /\ StoryPosition(a) = StoryPosition(b)
             /\ StoryName(a) <= StoryName(b)

IsOrdered(list) ==
    \A i \in 1..Len(list), j \in 1..Len(list) :
        i < j => MayPrecede(list[i], list[j])

\* C16: the root list and the children list of every node of the forest are
\* ordered folders first, then by ascending position, then by name; folder A
\* at position 0, leaf B at position 0 and folder C at position 1 come out as
\* A, C, B.
C16_ListsOrdered ==
    forest.returned =>
        /\ IsOrdered(forest.roots)
        /\ \A j \in 1..Len(ForestNodes) :
              IsOrdered(forest.children[ForestNodes[j]])
        /\ (/\ Len(records) = 3
            /\ \A id \in RecordIds : StoryParentId(id) = Null
            /\ StoryIsFolder(1) /\ StoryPosition(1) = 0
            /\ ~StoryIsFolder(2) /\ StoryPosition(2) = 0
            /\ StoryIsFolder(3) /\ StoryPosition(3) = 1)
           => forest.roots = <<1, 3, 2>>

\* buildTree returned for the three records A, B, C of the example, given in
\* the order C, B, A.
C16_Witness ==
    /\ forest.returned
    /\ records = <<3, 2, 1>>
    /\ \A id \in RecordIds : StoryParentId(id) = Null
    /\ StoryIsFolder(1) /\ StoryPosition(1) = 0
    /\ ~StoryIsFolder(2) /\ StoryPosition(2) = 0
    /\ StoryIsFolder(3) /\ StoryPosition(3) = 1
    /\ forest.roots = <<1, 3, 2>>

\* ---------------------------------------------------- loadAndSyncComponents
\* The steps an item may take.
ItemPaths ==
    {<<"Discovered", "Creating">>, <<"Creating", "Created">>,
     <<"Creating", "Error">>, <<"Discovered", "Updating">>,
     <<"Updating", "Updated">>, <<"Updating", "Error">>,
     <<"Discovered", "Skipped">>}

ErrorNames(errs) == [j \in 1..Len(errs) |-> errs[j].name]

\* How often the name is in the list of the returned value that `state` names.
TimesIn(state, name) ==
    CASE state = "Created" -> Occurrences(syncReturn.created, name)
      [] state = "Updated" -> Occurrences(syncReturn.updated, name)
      [] state = "Skipped" -> Occurrences(syncReturn.skipped, name)
      [] OTHER -> Occurrences(ErrorNames(syncReturn.errors), name)

EventsOfType(type) == {j \in 1..Len(syncEvents) : syncEvents[j].type = type}

\* C18: the first event of a sync invocation is a start event with total =
\* the number of local items, so it comes before any progress event; no
\* complete event is sent while the invocation runs, and when it has returned
\* exactly one was sent, as the last event (after every progress event),
\* whether all loads failed, the sync returned or the sync threw.
C18_StartAndOneComplete ==
    /\ syncPc # "idle" =>
          /\ syncEvents[1].type = "start"
          /\ syncEvents[1].total = Len(localItems)
          /\ \A j \in EventsOfType("progress") : j > 1
    /\ syncPc \notin {"idle", "returned"} => EventsOfType("complete") = {}
    /\ syncPc = "returned" =>
          /\ EventsOfType("complete") = {Len(syncEvents)}
          /\ \A j \in EventsOfType("progress") : j < Len(syncEvents)

\* The three ways an invocation returns, each after progress events: no file
\* loaded; syncComponents returned; syncComponents threw.
C18_Witness ==
    /\ syncPc = "returned"
    /\ EventsOfType("progress") # {}
    /\ SuccessfulLoads = {}

C18_WitnessSynced ==
    /\ syncPc = "returned"
    /\ syncReturn.created # <<>>
    /\ ItemsWith({"error"}) # {}

C18_WitnessThrew ==
    /\ syncPc = "returned"
    /\ SuccessfulLoads # {}
    /\ \A i \in DOMAIN itemState : itemState[i] = "Discovered"

\* ------------------------------------------------------- discoverComponents
\* Whether the list is local before external and, within each, by name.
LocalFirstThenName(list) ==
    \A i \in 1..Len(list), j \in 1..Len(list) :
        i < j =>
            \/ list[i].type = "local" /\ list[j].type = "external"
            \/ list[i].type = list[j].type /\ list[i].name <= list[j].name

\* C19: the list discoverComponents returns has no two components of the same
\* logical name, the one kept being the first found, and is sorted local
\* before external, then by name.
C19_UniqueNamesSorted ==
    discovered.returned =>
        LET list == discovered.components
        IN /\ \A i \in 1..Len(list), j \in 1..Len(list) :
                 list[i].name = list[j].name => i = j
           /\ \A i \in 1..Len(list) :
                 \A k \in 1..Len(workingDir.scanned) :
                     workingDir.scanned[k].name = list[i].name
                         => list[i].filePath <= k
           /\ LocalFirstThenName(list)

\* -------------------------------------------------------------- fetchStories
\* C20: fetchStories requests the pages 1, 2, ... in order (the request in
\* flight is for the page with the number of requests issued, and a step
\* issues at most the next one), goes on after a response exactly when the
\* stories fetched are fewer than the total it reports and the limit allows,
\* and issues at most 1000 page requests.
C20_PagesInOrderAtMostThousand ==
    /\ [](fetchPc = "waiting" => page = pageRequests)
    /\ [](pageRequests <= 1000)
    /\ [][/\ pageRequests' \in {pageRequests, pageRequests + 1}
          /\ fetchPc = "waiting" /\ fetched' >= reportedTotal' /\ fetchPc' # "threw"
                => fetchPc' = "returned" /\ pageRequests' = pageRequests
          /\ fetchPc = "waiting" /\ fetchPc' = "waiting"
                => fetched' < reportedTotal']_vars
    /\ [](fetchPc = "returned" => fetched >= reportedTotal \/ pageRequests = 1000)

\* fetchStories returned after 1000 page requests without the total reported.
C20_Witness ==
    /\ fetchPc = "returned"
    /\ pageRequests = 1000
    /\ stored > PER_PAGE
    /\ fetched = stored
    /\ fetched < reportedTotal

\* fetchStories returned after the third page gave the total reported.
C20_WitnessComplete ==
    /\ fetchPc = "returned"
    /\ pageRequests = 3
    /\ fetched = reportedTotal
    /\ reportedTotal = 2 * PER_PAGE + 1

\* -------------------------------------------------------------- SbMigService
\* C21: isRunning() is true whenever a process spawned by executeCommand has
\* neither exited nor been killed through the service.
C21_RunningIsTracked ==
    (\E call \in DOMAIN processes : processes[call].status = "running")
        => IsRunning(Service)

C25_EveryPathAccountedFor ==
    syncPc = "returned" =>
        Len(syncReturn.created) + Len(syncReturn.updated)
            + Len(syncReturn.skipped) + Len(syncReturn.errors)
            >= Len(localItems)

\* -------------------------------------------------------- loadComponentFiles
\* The directory is the file or one of its ancestors in the directory tree.
IsAtOrBelow(file, dir) ==
    /\ Len(Resolve(<<>>, dir)) <= Len(Resolve(<<>>, file))
    /\ SubSeq(Resolve(<<>>, file), 1, Len(Resolve(<<>>, dir))) = Resolve(<<>>, dir)

\* C24: every file loadComponentFiles compiles or requires is workingDir or
\* a descendant of workingDir.
C24_LoadsInsideWorkingDir ==
    \A file \in loadedFiles : IsAtOrBelow(file, loadArgs.workingDir)

\* ------------------------------------------------------------ settings store
\* C26: every entry of settingsCache equals the value of the key's row in the
\* settings table (null when there is no row), and a getSetting call made
\* after initDatabase, with no closeDatabase so far, returns the value of the
\* last setSetting call for the key, or null if the key was deleted last.
C26_CacheEqualsTable ==
    /\ \A k \in Keys : settingsCache[k] # Absent => settingsCache[k] = settings[k]
    /\ ( /\ got.called
         /\ settingHistory.inited
         /\ ~settingHistory.closed
         /\ settingHistory.last[got.key] # "none" )
        => got.value = IF settingHistory.last[got.key] = "deleted"
                       THEN NullValue
                       ELSE settingHistory.last[got.key]

\* getSetting has answered from the cache for a key that was read, then set.
C26_Witness ==
    /\ got.called
    /\ settingHistory.inited
    /\ ~settingHistory.closed
    /\ settingHistory.last[got.key] \in Values
    /\ got.value = settingHistory.last[got.key]
    /\ \E k \in Keys : settingsCache[k] = NullValue

\* C27: each getSetting call returns the same value in the cached and in the
\* uncached store.
C27_SameAnswers == got.called => got.value = got.plainValue

\* --------------------------------------------------------- configured spaces
\* C28: with every write of the window done, the 'sbmig_active_space' setting
\* is absent or the id of a space in the 'sbmig_spaces' setting.
C28_SavedActiveSpaceExists ==
    settingWrites = <<>> =>
        \/ savedActiveSpace = NoSpace
        \/ \E j \in DOMAIN savedSpaces : savedSpaces[j] = savedActiveSpace

\* ----------------------------------------------------------------- useOutput
\* C29: the output holds at most MAX_OUTPUT_LINES lines, and they are the
\* lines added last since the last clear, in the order they were added.
C29_LastThousandLines ==
    /\ Len(output) <= MAX_OUTPUT_LINES
    /\ Len(output) = IF Len(linesAdded) < MAX_OUTPUT_LINES
                     THEN Len(linesAdded) ELSE MAX_OUTPUT_LINES
    /\ \A j \in 1..Len(output) :
          output[j] = linesAdded[Len(linesAdded) - Len(output) + j]

\* More than MAX_OUTPUT_LINES lines were added, the last ones in one call.
C29_Witness ==
    /\ Len(linesAdded) > MAX_OUTPUT_LINES + 1
    /\ Len(output) = MAX_OUTPUT_LINES
    /\ output[1].id = Len(linesAdded) - MAX_OUTPUT_LINES

\* ---------------------------------------------------------- executeStoryCopy
\* C30: with a destination path that is not empty, copyStories is invoked
\* only with the id of the story found at the path as destinationParentId,
\* and no story is created at the root of the target space when the lookup
\* found no story or failed.
C30_CopiesUnderDestinationOnly ==
    Trim(storyCopy.destinationPath) # "" =>
        /\ pc # "idle" =>
              /\ storyCopy.lookup = "found"
              /\ <<destinationParentId>> =
                    StoriesWithSlug(Trim(storyCopy.destinationPath))
        /\ storyCopy.lookup \in {"no match", "not ok", "threw"} =>
              \A q \in DOMAIN requests : requests[q].parent_id # Null

\* ----------------------------------------------------- App and SbMigService
\* C23: whenever no request, output event or reply is in transit, the
\* isRunning state of App equals isRunning() of the service.
C23_FlagEqualsIsRunning ==
    toMain = <<>> /\ outputInTransit = <<>> /\ killReplies = 0
        => isRunning = IsRunning(Service)

====
